---- MODULE Spec2Model ----
(***************************************************************************)
(* Batched curve-and-pane rendering engine of flight-path.                 *)
(*                                                                         *)
(* MergedGPUCurves keeps every curve in one position buffer and one color  *)
(* buffer (flat Float32Array, 3 floats per vertex); slot i owns the        *)
(* vertices [i*segmentsPerCurve, (i+1)*segmentsPerCurve).  A buffer is     *)
(* indexed here by vertex: positions[v] is the triple of floats at         *)
(* 3v, 3v+1, 3v+2, which the code always writes together.  PanesShader     *)
(* keeps per-instance attributes and one shared time uniform.              *)
(*                                                                         *)
(* The renderer objects are records and their methods are operators from   *)
(* a record to the record after the call, so that host handlers can call   *)
(* several methods in one step.                                            *)
(***************************************************************************)
EXTENDS Integers, Sequences, FiniteSets, TLC

VARIABLES
    mc,       \* mergedCurves: the curve renderer
    ps,       \* mergedPanes: the pane renderer (PanesShader)
    flights,  \* the host's list of Flight objects
    params,   \* the host's GUI parameters
    pc,       \* where the host's frame callback stands
    lastOp    \* name of the last call or handler

vars == <<mc, ps, flights, params, pc, lastOp>>

hostVars == <<ps, flights, params, pc>>

(***************************************************************************)
(* Bounds of the model.                                                    *)
(***************************************************************************)
MaxCurves == 2
SegmentsPerCurve == 2

(***************************************************************************)
(* Numbers of the animation are exact, on a grid: a phase, a progress or   *)
(* an animation time p stands for p / PhaseUnit, the time uniform counts   *)
(* whole seconds, and a speed s stands for s / PhaseUnit per second.       *)
(***************************************************************************)
PhaseUnit == 10
MaxPanes == 1
MaxTime == 4
MaxSpeed == 3

PaneSlots == 0 .. (MaxPanes - 1)
PaneIndexInputs == -1 .. MaxPanes
PhaseInputs == 0 .. (PhaseUnit - 1)
SpeedInputs == 0 .. MaxSpeed
DeltaInputs == 1 .. 2

\* animationParams speed on creation: 0.1
InitialSpeed == PhaseUnit \div 10

\* Math.floor(x) of a number of grid steps
Floor(x) == (x \div PhaseUnit) * PhaseUnit

(***************************************************************************)
(* Inputs.  A point is a triple <<x, y, z>>; a color argument is a hex     *)
(* number.  Null stands for a missing control-point list (null or         *)
(* undefined): a value that is no list of points.                          *)
(***************************************************************************)
DefaultCurveColor == 4491519
PaneColorHex == 16737894
White == 16777215
BaseSize == 100

Null == << <<>> >>

\* let mergedPanes = null; params before the host has started.
NoPanesShader == [time |-> 0, animationParams |-> << >>]
NoParams == [numFlights |-> 0, hidePath |-> FALSE]

PtA == <<2, 4, 6>>
PtB == <<8, 0, 4>>
PtC == <<0, 6, 2>>

ValidControlPoints == { <<PtA, PtB, PtC>> }
InvalidControlPoints == { Null, <<>>, <<PtA>> }
ControlPointInputs == ValidControlPoints \cup InvalidControlPoints

ColorInputs == { DefaultCurveColor, PaneColorHex }
CurveIndexInputs == -1 .. MaxCurves
CurveSlots == 0 .. (MaxCurves - 1)

\* new THREE.Color(hex): the three 8-bit channels of the hex number.
ToColor(hex) == << hex \div 65536, (hex \div 256) % 256, hex % 256 >>

(***************************************************************************)
(* THREE.CatmullRomCurve3(points).getPoint(t), t = tnum/tden: the knot     *)
(* interval and the weight inside it are those of the library; the blend   *)
(* between the two knots is linear, rounded down to the buffer's grid.     *)
(***************************************************************************)
getPoint(points, tnum, tden) ==
    LET l == Len(points)
        p == (l - 1) * tnum
        ip0 == p \div tden
        atEnd == (p % tden = 0) /\ (ip0 = l - 1)
        intPoint == IF atEnd THEN l - 2 ELSE ip0
        weightNum == IF atEnd THEN tden ELSE p - ip0 * tden
        p1 == points[intPoint + 1]
        p2 == points[intPoint + 2]
        blend(d) == p1[d] + ((p2[d] - p1[d]) * weightNum) \div tden
    IN  << blend(1), blend(2), blend(3) >>

\* curve.getPoints(divisions): divisions + 1 points, indexed from 0.
getPoints(points, divisions) ==
    [k \in 0..divisions |-> getPoint(points, k, divisions)]

(***************************************************************************)
(* MergedGPUCurves                                                         *)
(***************************************************************************)
TotalPoints == MaxCurves * SegmentsPerCurve
Vertices == 0 .. (TotalPoints - 1)
Zero3 == <<0, 0, 0>>

\* constructor + initialize(): zero-filled buffers, empty draw range,
\* every slot white, without control points, not visible.  mesh stands for
\* this.mesh !== null and sceneRemovals counts the calls scene.remove(mesh).
NewMergedCurves ==
    [ positions |-> [v \in Vertices |-> Zero3],
      colors |-> [v \in Vertices |-> Zero3],
      curveData |-> [i \in CurveSlots |->
                        [controlPoints |-> <<>>, color |-> ToColor(White), visible |-> FALSE]],
      currentCurveCount |-> 0,
      needsPositionUpdate |-> FALSE,
      needsColorUpdate |-> FALSE,
      drawStart |-> 0,
      drawCount |-> 0,
      positionAttrNeedsUpdate |-> FALSE,
      colorAttrNeedsUpdate |-> FALSE,
      mesh |-> TRUE,
      sceneRemovals |-> 0,
      thrown |-> FALSE ]

\* A statement reads or writes a property of this.curveData[curveIndex]
\* where the array has no such element: a TypeError is raised and the call
\* ends there.  thrown records that a call on the renderer has raised.
TypeError(r) == [r EXCEPT !.thrown = TRUE]

\* updateDrawRange(): geometry.setDrawRange(0, currentCurveCount * segmentsPerCurve)
updateDrawRange(r) ==
    [r EXCEPT !.drawStart = 0, !.drawCount = r.currentCurveCount * SegmentsPerCurve]

\* The loop of setCurve: for i = 0 .. points.length-1 the vertex pointOffset + i
\* gets points[i] / the color; a typed array drops a write past its end.
setCurveFill(r, curveIndex, points, color) ==
    LET pointOffset == curveIndex * SegmentsPerCurve
        n == Cardinality(DOMAIN points)
        written(v) == (v - pointOffset) \in 0..(n - 1)
    IN  [r EXCEPT
          !.positions = [v \in Vertices |->
                IF written(v) THEN points[v - pointOffset] ELSE r.positions[v]],
          !.colors = [v \in Vertices |->
                IF written(v) THEN color ELSE r.colors[v]]]

MutSetCurveNoLengthCheck(r, curveIndex, controlPoints, color) ==
    IF curveIndex < 0 \/ curveIndex >= MaxCurves THEN r
    ELSE IF controlPoints = Null \/ Len(controlPoints) < 1 THEN r
    ELSE
      LET c == ToColor(color)
          pts == IF Len(controlPoints) < 2 THEN <<controlPoints[1], controlPoints[1]>>
                 ELSE controlPoints
          r1 == [r EXCEPT !.curveData[curveIndex] =
                    [controlPoints |-> controlPoints, color |-> c, visible |-> TRUE]]
          r2 == setCurveFill(r1, curveIndex, getPoints(pts, SegmentsPerCurve), c)
          r3 == [r2 EXCEPT !.needsPositionUpdate = TRUE, !.needsColorUpdate = TRUE]
      IN  IF curveIndex >= r3.currentCurveCount
          THEN updateDrawRange([r3 EXCEPT !.currentCurveCount = curveIndex + 1])
          ELSE r3

setCurve(r, curveIndex, controlPoints, color) ==
    IF curveIndex < 0 \/ curveIndex >= MaxCurves THEN r
    ELSE IF controlPoints = Null \/ Len(controlPoints) < 2 THEN r
    ELSE IF curveIndex \notin DOMAIN r.curveData THEN TypeError(r)
    ELSE
      LET c == ToColor(color)
          r1 == [r EXCEPT !.curveData[curveIndex] =
                    [controlPoints |-> controlPoints, color |-> c, visible |-> TRUE]]
          r2 == setCurveFill(r1, curveIndex, getPoints(controlPoints, SegmentsPerCurve), c)
          r3 == [r2 EXCEPT !.needsPositionUpdate = TRUE, !.needsColorUpdate = TRUE]
      IN  IF curveIndex >= r3.currentCurveCount
          THEN updateDrawRange([r3 EXCEPT !.currentCurveCount = curveIndex + 1])
          ELSE r3

MutSetCurveColorOverrun(r, curveIndex, color) ==
    IF curveIndex < 0 \/ curveIndex >= MaxCurves THEN r
    ELSE IF ~r.curveData[curveIndex].visible THEN r
    ELSE
      LET c == ToColor(color)
          pointOffset == curveIndex * SegmentsPerCurve
          written(v) == (v - pointOffset) \in 0..SegmentsPerCurve
      IN  [r EXCEPT
            !.curveData[curveIndex].color = c,
            !.colors = [v \in Vertices |->
                  IF written(v) THEN c ELSE r.colors[v]],
            !.needsColorUpdate = TRUE]

MutSetCurveColorShort(r, curveIndex, color) ==
    IF curveIndex < 0 \/ curveIndex >= MaxCurves THEN r
    ELSE IF ~r.curveData[curveIndex].visible THEN r
    ELSE
      LET c == ToColor(color)
          pointOffset == curveIndex * SegmentsPerCurve
          written(v) == (v - pointOffset) \in 0..(SegmentsPerCurve - 2)
      IN  [r EXCEPT
            !.curveData[curveIndex].color = c,
            !.colors = [v \in Vertices |->
                  IF written(v) THEN c ELSE r.colors[v]],
            !.needsColorUpdate = TRUE]

setCurveColor(r, curveIndex, color) ==
    IF curveIndex < 0 \/ curveIndex >= MaxCurves THEN r
    ELSE IF curveIndex \notin DOMAIN r.curveData THEN TypeError(r)
    ELSE IF ~r.curveData[curveIndex].visible THEN r
    ELSE
      LET c == ToColor(color)
          pointOffset == curveIndex * SegmentsPerCurve
          written(v) == (v - pointOffset) \in 0..(SegmentsPerCurve - 1)
      IN  [r EXCEPT
            !.curveData[curveIndex].color = c,
            !.colors = [v \in Vertices |->
                  IF written(v) THEN c ELSE r.colors[v]],
            !.needsColorUpdate = TRUE]

MutHideCurveKeepsFirst(r, curveIndex) ==
    IF curveIndex < 0 \/ curveIndex >= MaxCurves THEN r
    ELSE
      LET pointOffset == curveIndex * SegmentsPerCurve
          written(v) == (v - pointOffset) \in 1..(SegmentsPerCurve - 1)
      IN  [r EXCEPT
            !.curveData[curveIndex].visible = FALSE,
            !.positions = [v \in Vertices |->
                  IF written(v) THEN Zero3 ELSE r.positions[v]],
            !.needsPositionUpdate = TRUE]

hideCurve(r, curveIndex) ==
    IF curveIndex < 0 \/ curveIndex >= MaxCurves THEN r
    ELSE IF curveIndex \notin DOMAIN r.curveData THEN TypeError(r)
    ELSE
      LET pointOffset == curveIndex * SegmentsPerCurve
          written(v) == (v - pointOffset) \in 0..(SegmentsPerCurve - 1)
      IN  [r EXCEPT
            !.curveData[curveIndex].visible = FALSE,
            !.positions = [v \in Vertices |->
                  IF written(v) THEN Zero3 ELSE r.positions[v]],
            !.needsPositionUpdate = TRUE]

Min(a, b) == IF a < b THEN a ELSE b

MutSetVisibleCurveCountNoClamp(r, count) ==
    updateDrawRange([r EXCEPT !.currentCurveCount = count])

setVisibleCurveCount(r, count) ==
    updateDrawRange([r EXCEPT !.currentCurveCount = Min(count, MaxCurves)])

\* geometry.attributes.position.needsUpdate / color.needsUpdate are the
\* fields positionAttrNeedsUpdate / colorAttrNeedsUpdate.
MutApplyUpdatesMarksAlways(r) ==
    [r EXCEPT
      !.positionAttrNeedsUpdate = TRUE,
      !.needsPositionUpdate = FALSE,
      !.colorAttrNeedsUpdate = TRUE,
      !.needsColorUpdate = FALSE]

applyUpdates(r) ==
    [r EXCEPT
      !.positionAttrNeedsUpdate = IF r.needsPositionUpdate THEN TRUE ELSE @,
      !.needsPositionUpdate = FALSE,
      !.colorAttrNeedsUpdate = IF r.needsColorUpdate THEN TRUE ELSE @,
      !.needsColorUpdate = FALSE]

\* renderer.render(scene, camera) as the geometry sees it: an attribute
\* marked needsUpdate is uploaded and the mark is consumed.
uploadAttributes(r) ==
    [r EXCEPT !.positionAttrNeedsUpdate = FALSE, !.colorAttrNeedsUpdate = FALSE]

(***************************************************************************)
(* The curve renderer driven by an arbitrary caller.  lastOp names the     *)
(* last call; a setCurve whose index is out of range or whose point list   *)
(* is missing or shorter than 2 is recorded as "setCurveRejected".         *)
(***************************************************************************)
Init ==
    /\ mc = NewMergedCurves
    /\ ps = NoPanesShader
    /\ flights = << >>
    /\ params = NoParams
    /\ pc = "idle"
    /\ lastOp = "none"

ValidSetCurveArgs(i, pts) ==
    /\ i \in CurveSlots
    /\ pts # Null
    /\ Len(pts) >= 2

SetCurve ==
    \E i \in CurveSlots, pts \in ValidControlPoints, c \in ColorInputs :
        /\ mc' = setCurve(mc, i, pts, c)
        /\ lastOp' = "setCurve"
        /\ UNCHANGED hostVars

\* Calls that setCurve rejects: an index off either end with a good list,
\* or a good index with a list that is missing, empty or of one point.
\* The color argument is left to its default.
RejectedSetCurveArgs ==
    ({-1, MaxCurves} \X ValidControlPoints) \cup ({0} \X InvalidControlPoints)

SetCurveRejected ==
    \E a \in RejectedSetCurveArgs :
      LET i == a[1]
          pts == a[2]
      IN
        /\ ~ValidSetCurveArgs(i, pts)
        /\ mc' = setCurve(mc, i, pts, DefaultCurveColor)
        /\ lastOp' = "setCurveRejected"
        /\ UNCHANGED hostVars

SetCurveColor ==
    \E i \in CurveIndexInputs, c \in ColorInputs :
        /\ mc' = setCurveColor(mc, i, c)
        /\ lastOp' = "setCurveColor"
        /\ UNCHANGED hostVars

HideCurve ==
    \E i \in CurveIndexInputs :
        /\ mc' = hideCurve(mc, i)
        /\ lastOp' = "hideCurve"
        /\ UNCHANGED hostVars

SetVisibleCurveCount ==
    \E n \in 0..(MaxCurves + 1) :
        /\ mc' = setVisibleCurveCount(mc, n)
        /\ lastOp' = "setVisibleCurveCount"
        /\ UNCHANGED hostVars

ApplyUpdates ==
    /\ mc' = applyUpdates(mc)
    /\ lastOp' = "applyUpdates"
    /\ UNCHANGED hostVars

Next ==
    \/ SetCurve
    \/ SetCurveRejected
    \/ SetCurveColor
    \/ HideCurve
    \/ SetVisibleCurveCount
    \/ ApplyUpdates

Spec == Init /\ [][Next]_vars

(***************************************************************************)
(* Properties of the curve renderer.                                       *)
(*                                                                         *)
(* InSlot(v, i): vertex v belongs to the sub-range reserved for slot i,    *)
(* the vertices [i*segmentsPerCurve, (i+1)*segmentsPerCurve).              *)
(***************************************************************************)
InSlot(v, i) ==
    /\ i * SegmentsPerCurve <= v
    /\ v < (i + 1) * SegmentsPerCurve

SlotPositionsZero(r, i) == \A v \in Vertices : InSlot(v, i) => r.positions[v] = Zero3

SlotColorsAre(r, i, c) == \A v \in Vertices : InSlot(v, i) => r.colors[v] = c

\* C1: a successful setCurve(i, points, color) leaves the position and color
\* entries of every slot other than i unchanged.  The code writes
\* segmentsPerCurve + 1 vertices, so this is violated.
SetCurveWritesOnlyOwnSlot ==
    \A i \in CurveSlots, pts \in ValidControlPoints, c \in ColorInputs :
        LET r == setCurve(mc, i, pts, c)
        IN  \A v \in Vertices :
                ~InSlot(v, i) =>
                    /\ r.positions[v] = mc.positions[v]
                    /\ r.colors[v] = mc.colors[v]

\* C2: in every reachable state, every slot whose visible flag is false has
\* an all-zero position sub-range.  Violated through the overrun of C1.
HiddenSlotsAreZero ==
    \A i \in CurveSlots : ~mc.curveData[i].visible => SlotPositionsZero(mc, i)

\* C3: in every reachable state, setCurve with an out-of-range index, a
\* missing control-point list or fewer than 2 control points returns the
\* renderer unchanged: buffers, every slot's control points / color /
\* visible flag, both pending flags and the visible curve count.
InvalidSetCurveIsNoOp ==
    \A i \in CurveIndexInputs, pts \in ControlPointInputs, c \in ColorInputs :
        (i < 0 \/ i >= MaxCurves \/ pts = Null \/ Len(pts) < 2) =>
            LET r == setCurve(mc, i, pts, c)
            IN  /\ r.positions = mc.positions
                /\ r.colors = mc.colors
                /\ r.curveData = mc.curveData
                /\ r.needsPositionUpdate = mc.needsPositionUpdate
                /\ r.needsColorUpdate = mc.needsColorUpdate
                /\ r.currentCurveCount = mc.currentCurveCount
                /\ r = mc

\* A rejected setCurve has just been made on a renderer whose slots are all
\* in use and whose buffers are waiting for a flush.
InvalidSetCurveWitness ==
    /\ lastOp = "setCurveRejected"
    /\ \A i \in CurveSlots : mc.curveData[i].visible
    /\ mc.needsPositionUpdate
    /\ mc.currentCurveCount = MaxCurves

\* C4: hideCurve(i) on a valid index zeroes every position entry of slot i,
\* marks the slot not visible and leaves the color buffer and the other
\* slots' positions unchanged; a following setVisibleCurveCount(n) with
\* i < n changes no buffer entry, and slot i lies inside the draw range.
HideCurveCollapsesSlot ==
    \A i \in CurveSlots :
        LET r == hideCurve(mc, i)
        IN  /\ SlotPositionsZero(r, i)
            /\ ~r.curveData[i].visible
            /\ r.colors = mc.colors
            /\ \A v \in Vertices : ~InSlot(v, i) => r.positions[v] = mc.positions[v]
            /\ \A n \in 0..(MaxCurves + 1) :
                  i < n =>
                      LET q == setVisibleCurveCount(r, n)
                      IN  /\ q.positions = r.positions
                          /\ q.colors = r.colors
                          /\ SlotPositionsZero(q, i)
                          /\ ~q.curveData[i].visible
                          /\ (i + 1) * SegmentsPerCurve <= q.drawCount

\* A slot that held a curve has been hidden (its control points are kept,
\* its colors are still there, its positions are zero) and the last call was
\* a setVisibleCurveCount that keeps the slot inside the draw range.
HideCurveWitness ==
    /\ lastOp = "setVisibleCurveCount"
    /\ \E i \in CurveSlots :
          /\ Len(mc.curveData[i].controlPoints) >= 2
          /\ ~mc.curveData[i].visible
          /\ SlotPositionsZero(mc, i)
          /\ SlotColorsAre(mc, i, mc.curveData[i].color)
          /\ (i + 1) * SegmentsPerCurve <= mc.drawCount

\* C5 as stated: in every reachable state, for every index in [0, maxCurves)
\* and every color c, after setCurveColor(index, c) every vertex of the
\* slot's color sub-range reads c.  Violated for a slot that is not visible.
SetCurveColorRoundTripAnySlot ==
    \A i \in CurveSlots, c \in ColorInputs :
        SlotColorsAre(setCurveColor(mc, i, c), i, ToColor(c))

\* C5 amended: in every reachable state, for every index whose slot is
\* visible and every color c, after setCurveColor(index, c) every vertex of
\* the slot's color sub-range reads c, and so does the slot's stored color.
SetCurveColorRoundTripVisibleSlot ==
    \A i \in CurveSlots, c \in ColorInputs :
        mc.curveData[i].visible =>
            LET r == setCurveColor(mc, i, c)
            IN  /\ SlotColorsAre(r, i, ToColor(c))
                /\ r.curveData[i].color = ToColor(c)

\* setCurveColor has just recolored a visible slot: the slot reads the pane
\* color everywhere while another slot still has the default curve color.
SetCurveColorRoundTripWitness ==
    /\ lastOp = "setCurveColor"
    /\ \E i, j \in CurveSlots :
          /\ mc.curveData[i].visible
          /\ SlotColorsAre(mc, i, ToColor(PaneColorHex))
          /\ mc.curveData[j].color = ToColor(DefaultCurveColor)
          /\ mc.curveData[j].visible

\* C6: setCurveColor(index, c) leaves the position buffer, every other
\* index's color sub-range, every visible flag, the visible curve count and
\* the pending position-update flag unchanged.
SetCurveColorFrame ==
    \A i \in CurveIndexInputs, c \in ColorInputs :
        LET r == setCurveColor(mc, i, c)
        IN  /\ r.positions = mc.positions
            /\ \A v \in Vertices : ~InSlot(v, i) => r.colors[v] = mc.colors[v]
            /\ \A j \in CurveSlots : r.curveData[j].visible = mc.curveData[j].visible
            /\ r.currentCurveCount = mc.currentCurveCount
            /\ r.drawCount = mc.drawCount
            /\ r.needsPositionUpdate = mc.needsPositionUpdate

\* setCurveColor has just been called after the positions were flushed: only
\* the color flag is pending, and two visible slots carry different colors.
SetCurveColorFrameWitness ==
    /\ lastOp = "setCurveColor"
    /\ ~mc.needsPositionUpdate
    /\ mc.needsColorUpdate
    /\ \E i, j \in CurveSlots :
          /\ mc.curveData[i].visible
          /\ mc.curveData[j].visible
          /\ mc.curveData[i].color # mc.curveData[j].color
          /\ SlotColorsAre(mc, i, mc.curveData[i].color)
          /\ SlotColorsAre(mc, j, mc.curveData[j].color)

\* C7: after setVisibleCurveCount(n), n >= 0, the draw range starts at 0 and
\* covers min(n, maxCurves) * segmentsPerCurve vertices, whatever the visible
\* flags are, and no buffer entry or visible flag has changed.
SetVisibleCurveCountDrawRange ==
    \A n \in 0..(MaxCurves + 1) :
        LET r == setVisibleCurveCount(mc, n)
            shown == IF n <= MaxCurves THEN n ELSE MaxCurves
        IN  /\ r.drawStart = 0
            /\ r.drawCount = shown * SegmentsPerCurve
            /\ r.positions = mc.positions
            /\ r.colors = mc.colors
            /\ \A j \in CurveSlots : r.curveData[j].visible = mc.curveData[j].visible

\* setVisibleCurveCount has just set the full draw range although a slot
\* inside it is not visible.
SetVisibleCurveCountWitness ==
    /\ lastOp = "setVisibleCurveCount"
    /\ mc.drawCount = MaxCurves * SegmentsPerCurve
    /\ \E i, j \in CurveSlots : mc.curveData[i].visible /\ ~mc.curveData[j].visible

\* C8: every step that changes a buffer leaves the matching pending flag
\* set; a pending flag stays set and no attribute is marked until
\* applyUpdates(); applyUpdates() marks exactly the attributes whose flag was
\* pending, clears both flags and changes nothing else, so with no flag
\* pending it changes nothing.
FlushProtocol ==
    [][ /\ mc'.positions # mc.positions => mc'.needsPositionUpdate
        /\ mc'.colors # mc.colors => mc'.needsColorUpdate
        /\ lastOp' # "applyUpdates" =>
              /\ mc.needsPositionUpdate => mc'.needsPositionUpdate
              /\ mc.needsColorUpdate => mc'.needsColorUpdate
              /\ mc'.positionAttrNeedsUpdate = mc.positionAttrNeedsUpdate
              /\ mc'.colorAttrNeedsUpdate = mc.colorAttrNeedsUpdate
        /\ lastOp' = "applyUpdates" =>
              /\ mc'.positionAttrNeedsUpdate =
                    (mc.positionAttrNeedsUpdate \/ mc.needsPositionUpdate)
              /\ mc'.colorAttrNeedsUpdate =
                    (mc.colorAttrNeedsUpdate \/ mc.needsColorUpdate)
              /\ ~mc'.needsPositionUpdate
              /\ ~mc'.needsColorUpdate
              /\ mc' = [mc EXCEPT
                          !.positionAttrNeedsUpdate = mc'.positionAttrNeedsUpdate,
                          !.colorAttrNeedsUpdate = mc'.colorAttrNeedsUpdate,
                          !.needsPositionUpdate = FALSE,
                          !.needsColorUpdate = FALSE]
              /\ (~mc.needsPositionUpdate /\ ~mc.needsColorUpdate) => mc' = mc
      ]_vars

\* applyUpdates() has just flushed a position write (a hideCurve) while no
\* color write was pending: only the position attribute is marked.
FlushProtocolWitness ==
    /\ lastOp = "applyUpdates"
    /\ mc.positionAttrNeedsUpdate
    /\ ~mc.colorAttrNeedsUpdate
    /\ ~mc.needsPositionUpdate
    /\ ~mc.needsColorUpdate

(***************************************************************************)
(* Flight: the curve side of the facade.  A flight is bound to the slot    *)
(* curveIndex of the shared curve renderer; each method is the renderer    *)
(* after the call.  The calls a flight makes on mergedPanes change the     *)
(* pane renderer only and are not followed here.                           *)
(***************************************************************************)
\* The generated flight configurations: control points and curve color.
FlightConfigs ==
    { [controlPoints |-> <<PtA, PtB, PtC>>, curveColor |-> DefaultCurveColor],
      [controlPoints |-> <<PtC, PtA>>, curveColor |-> PaneColorHex] }

\* new Flight(scene, options): the options the host leaves out take the
\* constructor's defaults.  cachedCurve stands for _cachedCurve !== null and
\* cpuPaneT for the parameter at which update() last placed a CPU-based pane
\* (updatePaneOnCurve), -1 while it never has.
NewFlight(config, flightIndex) ==
    [curveIndex |-> flightIndex,
     paneIndex |-> flightIndex,
     controlPoints |-> config.controlPoints,
     color |-> config.curveColor,
     paneColor |-> PaneColorHex,
     paneSize |-> BaseSize,
     elevationOffset |-> 0,
     textureIndex |-> 0,
     animationTime |-> 0,
     animationSpeed |-> InitialSpeed,
     animationSpeedTarget |-> InitialSpeed,
     tiltMode |-> "Perpendicular",
     returnFlight |-> FALSE,
     cachedCurve |-> FALSE,
     isShaderBasedPanes |-> FALSE,
     cpuPaneT |-> -1]

flightCreate(r, flight) ==
    IF flight.curveIndex >= 0
    THEN setCurve(r, flight.curveIndex, flight.controlPoints, flight.color)
    ELSE r

flightSetControlPoints(r, flight, controlPoints) ==
    IF flight.curveIndex >= 0
    THEN setCurve(r, flight.curveIndex, controlPoints, flight.color)
    ELSE r

flightSetCurveColor(r, flight, color) ==
    IF flight.curveIndex >= 0
    THEN setCurveColor(r, flight.curveIndex, color)
    ELSE r

flightRemove(r, flight) ==
    IF flight.curveIndex >= 0 THEN hideCurve(r, flight.curveIndex) ELSE r

(***************************************************************************)
(* The host page.  A host state h is [mc, flights, params]; a handler is   *)
(* the host state after it has run to completion.  cfgs gives the          *)
(* generated configuration used for each flight index.                     *)
(***************************************************************************)
MaxFlights == MaxCurves

updatePathVisibility(h) ==
    [h EXCEPT !.mc = setVisibleCurveCount(h.mc,
                        IF h.params.hidePath THEN 0 ELSE Len(h.flights))]

createFlightFromConfig(h, config, flightIndex) ==
    LET flight == NewFlight(config, flightIndex)
    IN  [h EXCEPT !.mc = flightCreate(h.mc, flight),
                  !.flights = Append(h.flights, flight)]

\* for (let i = from; i < to; i++) flights.push(createFlightFromConfig(..., i))
RECURSIVE createFlights(_, _, _, _)
createFlights(h, from, to, cfgs) ==
    IF from >= to THEN h
    ELSE createFlights(createFlightFromConfig(h, cfgs[from], from), from + 1, to, cfgs)

\* flightsToRemove.forEach(flight => flight.remove()) on the flights k..Len
RECURSIVE removeFlights(_, _, _)
removeFlights(r, fs, k) ==
    IF k > Len(fs) THEN r ELSE removeFlights(flightRemove(r, fs[k]), fs, k + 1)

\* updateDashPattern(): the dash uniforms, then mergedCurves.applyUpdates()
updateDashPattern(h) == [h EXCEPT !.mc = applyUpdates(h.mc)]

\* initializeFlights(): the old renderers are dropped, new ones are built,
\* params.numFlights flights are created, the visible count is set.
initializeFlights(h, cfgs) ==
    LET h1 == updateDashPattern([h EXCEPT !.flights = << >>, !.mc = NewMergedCurves])
        desiredCount == Min(h.params.numFlights, MaxFlights)
        h2 == [h1 EXCEPT !.params.numFlights = desiredCount]
    IN  updatePathVisibility(createFlights(h2, 0, desiredCount, cfgs))

updateFlightCount(h, count, cfgs) ==
    LET oldCount == Len(h.flights)
        targetCount == Min(count, MaxFlights)
        h1 == [h EXCEPT !.params.numFlights = targetCount]
        h2 == IF targetCount > oldCount
              THEN IF targetCount > 1
                   THEN LET h3 == createFlights(h1, oldCount, targetCount, cfgs)
                        IN  [h3 EXCEPT !.mc = applyUpdates(h3.mc)]
                   ELSE h1
              ELSE IF targetCount < oldCount
                   THEN [h1 EXCEPT
                           !.flights = SubSeq(h1.flights, 1, targetCount),
                           !.mc = removeFlights(h1.mc, h1.flights, targetCount + 1)]
                   ELSE h1
    IN  updatePathVisibility(h2)

\* flights.forEach: setControlPoints(new points), then setCurveColor(new color)
RECURSIVE randomizeFlights(_, _, _)
randomizeFlights(h, k, cfgs) ==
    IF k > Len(h.flights) THEN h
    ELSE LET flight == h.flights[k]
             config == cfgs[k - 1]
             r1 == flightSetControlPoints(h.mc, flight, config.controlPoints)
             f1 == [flight EXCEPT !.controlPoints = config.controlPoints]
             r2 == flightSetCurveColor(r1, f1, config.curveColor)
             f2 == [f1 EXCEPT !.color = config.curveColor]
         IN  randomizeFlights([h EXCEPT !.mc = r2, !.flights[k] = f2], k + 1, cfgs)

randomizeAllFlightCurves(h, cfgs) ==
    LET h1 == randomizeFlights(h, 1, cfgs)
    IN  [h1 EXCEPT !.mc = applyUpdates(h1.mc)]

RECURSIVE recolorFlights(_, _, _)
recolorFlights(h, k, color) ==
    IF k > Len(h.flights) THEN h
    ELSE recolorFlights(
            [h EXCEPT !.mc = flightSetCurveColor(h.mc, h.flights[k], color),
                      !.flights[k].color = color],
            k + 1, color)

updateCurveColor(h, color) ==
    LET h1 == recolorFlights(h, 1, color)
    IN  [h1 EXCEPT !.mc = applyUpdates(h1.mc)]

updateHidePath(h, value) ==
    updatePathVisibility([h EXCEPT !.params.hidePath = value])

\* animate() up to controls.update(): the pending curve updates are applied.
MutAnimateWithoutFlush(r) == r

animateUpdates(r) == applyUpdates(r)

(***************************************************************************)
(* The host's event loop.  Handlers and the frame callback run one at a    *)
(* time; the frame callback is followed in two steps, the updates and      *)
(* then renderer.render, with pc = "render" in between.                    *)
(***************************************************************************)
Host == [mc |-> mc, flights |-> flights, params |-> params]

HostBecomes(h, op) ==
    /\ mc' = h.mc
    /\ flights' = h.flights
    /\ params' = h.params
    /\ lastOp' = op
    /\ UNCHANGED <<ps, pc>>

ConfigChoices == [0 .. (MaxFlights - 1) -> FlightConfigs]

\* The page has loaded: initializeFlights() has run once.
InitHost ==
    /\ ps = NoPanesShader
    /\ pc = "idle"
    /\ lastOp = "initializeFlights"
    /\ \E n \in 1 .. MaxFlights, cfgs \in ConfigChoices :
          LET h == initializeFlights(
                      [mc |-> NewMergedCurves, flights |-> << >>,
                       params |-> [numFlights |-> n, hidePath |-> FALSE]], cfgs)
          IN  /\ mc = h.mc
              /\ flights = h.flights
              /\ params = h.params

InitializeFlights ==
    /\ pc = "idle"
    /\ \E cfgs \in ConfigChoices :
          HostBecomes(initializeFlights(Host, cfgs), "initializeFlights")

UpdateFlightCount ==
    /\ pc = "idle"
    /\ \E count \in 1 .. (MaxFlights + 1), cfgs \in ConfigChoices :
          HostBecomes(updateFlightCount(Host, count, cfgs), "updateFlightCount")

RandomizeAllFlightCurves ==
    /\ pc = "idle"
    /\ \E cfgs \in ConfigChoices :
          HostBecomes(randomizeAllFlightCurves(Host, cfgs), "randomizeAllFlightCurves")

UpdateCurveColor ==
    /\ pc = "idle"
    /\ \E color \in ColorInputs :
          HostBecomes(updateCurveColor(Host, color), "updateCurveColor")

UpdateHidePath ==
    /\ pc = "idle"
    /\ \E value \in BOOLEAN :
          HostBecomes(updateHidePath(Host, value), "updateHidePath")

AnimateUpdates ==
    /\ pc = "idle"
    /\ mc' = animateUpdates(mc)
    /\ pc' = "render"
    /\ lastOp' = "animate"
    /\ UNCHANGED <<ps, flights, params>>

AnimateRender ==
    /\ pc = "render"
    /\ mc' = uploadAttributes(mc)
    /\ pc' = "idle"
    /\ lastOp' = "render"
    /\ UNCHANGED <<ps, flights, params>>

NextHost ==
    \/ InitializeFlights
    \/ UpdateFlightCount
    \/ RandomizeAllFlightCurves
    \/ UpdateCurveColor
    \/ UpdateHidePath
    \/ AnimateUpdates
    \/ AnimateRender

SpecHost == InitHost /\ [][NextHost]_vars

\* C9: whatever handlers ran between frames, at every renderer.render step
\* of the frame loop the curve renderer has neither pending flag set.
FlushedBeforeRender ==
    pc = "render" => (~mc.needsPositionUpdate /\ ~mc.needsColorUpdate)

\* A frame is about to draw after flights were removed without a flush by
\* their handler: the frame's own applyUpdates() marked the position
\* attribute (the color attribute had been uploaded by an earlier frame).
FlushedBeforeRenderWitness ==
    /\ pc = "render"
    /\ mc.positionAttrNeedsUpdate
    /\ ~mc.colorAttrNeedsUpdate
    /\ \E i \in CurveSlots :
          /\ ~mc.curveData[i].visible
          /\ Len(mc.curveData[i].controlPoints) >= 2
          /\ i >= Len(flights)

(***************************************************************************)
(* PanesShader: the animation parameters and the shared time uniform.      *)
(*                                                                         *)
(* Numbers are exact, on a grid: a phase or a progress p stands for        *)
(* p / PhaseUnit, the time uniform counts whole seconds, and a speed s     *)
(* stands for s / PhaseUnit per second, so that time * speed + phase is a  *)
(* number of grid steps and 1.0 is PhaseUnit steps.                        *)
(***************************************************************************)
\* The attributes of the instanced geometry.
PaneAttributes ==
    { "controlPointsPack1", "controlPointsPack2", "controlPointsPack3",
      "instanceColor", "instanceScale", "instanceElevation",
      "instanceUVTransform", "animationParams" }

Zero4 == <<0, 0, 0, 0>>

\* A texture atlas of AtlasColumns x AtlasRows tiles; a UV offset or scale u
\* stands for u / UvUnit, so that the whole texture is UvUnit wide and high.
AtlasColumns == 2
AtlasRows == 1
UvUnit == AtlasColumns * AtlasRows
NoAtlas == [columns |-> 0, rows |-> 0, count |-> 0, scaleX |-> 0, scaleY |-> 0]
AtlasInfo ==
    [columns |-> AtlasColumns, rows |-> AtlasRows, count |-> AtlasColumns * AtlasRows,
     scaleX |-> UvUnit \div AtlasColumns, scaleY |-> UvUnit \div AtlasRows]
IdentityUv == <<0, 0, UvUnit, UvUnit>>

ScaleUnit == 4

\* constructor + initialize(): phase = Math.random(), speed 0.1,
\* tiltMode 0, visible 0; uniforms.time = 0; colors white, scale 0, default
\* elevation, identity UV transform, zero control points; every attribute
\* marked for the initial upload (markAllAttributesNeedUpdate).
NewPanesShader(phases) ==
    [ maxPanes |-> Cardinality(DOMAIN phases),
      baseSize |-> BaseSize,
      time |-> 0,
      returnModeEnabled |-> FALSE,
      controlPointsPack1 |-> [i \in DOMAIN phases |-> Zero4],
      controlPointsPack2 |-> [i \in DOMAIN phases |-> Zero4],
      controlPointsPack3 |-> [i \in DOMAIN phases |-> Zero4],
      instanceColors |-> [i \in DOMAIN phases |-> ToColor(White)],
      instanceScales |-> [i \in DOMAIN phases |-> 0],
      instanceElevations |-> [i \in DOMAIN phases |-> 0],
      instanceUvTransforms |-> [i \in DOMAIN phases |-> IdentityUv],
      animationParams |-> [i \in DOMAIN phases |->
          [phase |-> phases[i], speed |-> InitialSpeed, tiltMode |-> 0, visible |-> 0]],
      activePanes |-> 0,
      paneMap |-> "null",
      useTexture |-> 0,
      atlasInfo |-> NoAtlas,
      needsUpdate |-> PaneAttributes,
      instancedMesh |-> TRUE,
      sceneRemovals |-> 0 ]

\* attribute.needsUpdate = true
MarkNeedsUpdate(q, attrs) == [q EXCEPT !.needsUpdate = @ \cup attrs]

MutSetAnimationSpeedNoWrap(q, index, speed) ==
    IF index < 0 \/ index >= q.maxPanes THEN q
    ELSE
      LET oldSpeed == q.animationParams[index].speed
          oldPhase == q.animationParams[index].phase
          timeUniform == q.time
          progress == timeUniform * oldSpeed + oldPhase
          currentProgress == progress - Floor(progress)
          newPhase == currentProgress - timeUniform * speed
      IN  MarkNeedsUpdate(
            [q EXCEPT !.animationParams[index].speed = speed,
                      !.animationParams[index].phase = newPhase],
            {"animationParams"})

panesSetAnimationSpeed(q, index, speed) ==
    IF index < 0 \/ index >= q.maxPanes THEN q
    ELSE
      LET oldSpeed == q.animationParams[index].speed
          oldPhase == q.animationParams[index].phase
          timeUniform == q.time
          progress == timeUniform * oldSpeed + oldPhase
          currentProgress == progress - Floor(progress)
          backSolved == currentProgress - timeUniform * speed
          newPhase == backSolved - Floor(backSolved)
      IN  MarkNeedsUpdate(
            [q EXCEPT !.animationParams[index].speed = speed,
                      !.animationParams[index].phase = newPhase],
            {"animationParams"})

\* setCurveControlPoints(index, controlPoints): the first four points are
\* packed into the three vec4 attributes and the pane becomes visible.
panesPackControlPoints(q, index, controlPoints) ==
    LET p0 == controlPoints[1]
        p1 == controlPoints[2]
        p2 == controlPoints[3]
        p3 == controlPoints[4]
    IN  [q EXCEPT
          !.controlPointsPack1[index] = << p0[1], p0[2], p0[3], p1[1] >>,
          !.controlPointsPack2[index] = << p1[2], p1[3], p2[1], p2[2] >>,
          !.controlPointsPack3[index] = << p2[3], p3[1], p3[2], p3[3] >>,
          !.animationParams[index].visible = 1]

MutSetCurveControlPointsNoLengthCheck(q, index, controlPoints) ==
    IF index < 0 \/ index >= q.maxPanes THEN q
    ELSE IF Len(controlPoints) < 1 THEN q
    ELSE
      LET last == controlPoints[Len(controlPoints)]
          padded == controlPoints \o << last, last, last >>
      IN  MarkNeedsUpdate(
            panesPackControlPoints(q, index, padded),
            {"controlPointsPack1", "controlPointsPack2", "controlPointsPack3",
             "animationParams"})

panesSetCurveControlPoints(q, index, controlPoints) ==
    IF index < 0 \/ index >= q.maxPanes THEN q
    ELSE IF Len(controlPoints) < 4 THEN q
    ELSE MarkNeedsUpdate(
            panesPackControlPoints(q, index, controlPoints),
            {"controlPointsPack1", "controlPointsPack2", "controlPointsPack3",
             "animationParams"})

MutSetPaneColorUnmarked(q, index, color) ==
    IF index < 0 \/ index >= q.maxPanes THEN q
    ELSE [q EXCEPT !.instanceColors[index] = ToColor(color)]

\* setPaneColor(index, color)
panesSetPaneColor(q, index, color) ==
    IF index < 0 \/ index >= q.maxPanes THEN q
    ELSE MarkNeedsUpdate(
            [q EXCEPT !.instanceColors[index] = ToColor(color)],
            {"instanceColor"})

\* setPaneSize(index, size): normalizedScale = size / baseSize; a scale s
\* stands for s / ScaleUnit.
panesSetPaneSize(q, index, size) ==
    IF index < 0 \/ index >= q.maxPanes THEN q
    ELSE MarkNeedsUpdate(
            [q EXCEPT !.instanceScales[index] = (size * ScaleUnit) \div q.baseSize],
            {"instanceScale"})

\* setElevationOffset(index, offset)
panesSetElevationOffset(q, index, offset) ==
    IF index < 0 \/ index >= q.maxPanes THEN q
    ELSE MarkNeedsUpdate(
            [q EXCEPT !.instanceElevations[index] = offset],
            {"instanceElevation"})

\* setTiltMode(index, mode)
panesSetTiltMode(q, index, mode) ==
    IF index < 0 \/ index >= q.maxPanes THEN q
    ELSE MarkNeedsUpdate(
            [q EXCEPT !.animationParams[index].tiltMode =
                          IF mode = "Tangent" THEN 1 ELSE 0],
            {"animationParams"})

MutHidePaneScaleOnly(q, index) ==
    IF index < 0 \/ index >= q.maxPanes THEN q
    ELSE MarkNeedsUpdate(
            [q EXCEPT !.instanceScales[index] = 0],
            {"instanceScale"})

\* hidePane(index)
panesHidePane(q, index) ==
    IF index < 0 \/ index >= q.maxPanes THEN q
    ELSE MarkNeedsUpdate(
            [q EXCEPT !.animationParams[index].visible = 0],
            {"animationParams"})

\* setActivePaneCount(count)
panesSetActivePaneCount(q, count) ==
    [q EXCEPT !.activePanes = Min(count, q.maxPanes)]

\* setTexture(texture, atlasInfo): texture is "null" or a texture handle.
panesSetTexture(q, texture, atlasInfo) ==
    [q EXCEPT !.paneMap = texture,
              !.useTexture = IF texture # "null" THEN 1 ELSE 0,
              !.atlasInfo = IF texture # "null" /\ atlasInfo # NoAtlas
                            THEN atlasInfo ELSE NoAtlas]

Max(a, b) == IF a > b THEN a ELSE b

\* setTextureIndex(index, textureIndex): the UV rectangle of the tile, or
\* the whole texture without an atlas.
panesSetTextureIndex(q, index, textureIndex) ==
    IF index < 0 \/ index >= q.maxPanes THEN q
    ELSE
      LET info == q.atlasInfo
          columns == Max(1, info.columns)
          rows == Max(1, info.rows)
          totalSlots == columns * rows
          count == Max(1, IF info.count # 0 THEN info.count ELSE totalSlots)
          slot == ((textureIndex % count) + count) % count
          safeSlot == slot % totalSlots
          col == safeSlot % columns
          row == safeSlot \div columns
          scaleX == IF info.scaleX # 0 THEN info.scaleX ELSE UvUnit \div columns
          scaleY == IF info.scaleY # 0 THEN info.scaleY ELSE UvUnit \div rows
          uv == IF info # NoAtlas
                THEN << col * scaleX, row * scaleY, scaleX, scaleY >>
                ELSE IdentityUv
      IN  MarkNeedsUpdate(
            [q EXCEPT !.instanceUvTransforms[index] = uv],
            {"instanceUVTransform"})

\* renderer.render: the attributes marked for upload are uploaded and their
\* marks cleared.
uploadPaneAttributes(q) == [q EXCEPT !.needsUpdate = {}]

\* setReturnMode(enabled): the flag and the returnMode uniform
panesSetReturnMode(q, enabled) == [q EXCEPT !.returnModeEnabled = enabled]

MutUpdateSetsTime(q, deltaTime) == [q EXCEPT !.time = deltaTime]

\* update(deltaTime): uniforms.time.value += deltaTime
panesUpdate(q, deltaTime) == [q EXCEPT !.time = @ + deltaTime]

\* The vertex shader's parameter of pane i under the looping mapping:
\* animTime = time * speed + phase; t = mod(animTime, 1.0)
shaderProgress(q, i) ==
    LET animTime == q.time * q.animationParams[i].speed + q.animationParams[i].phase
    IN  animTime % PhaseUnit

Abs(x) == IF x < 0 THEN -x ELSE x

\* The parameter of pane i under the ping-pong mapping of return mode:
\* t = 1 - |2 * frac(time * speed / 2 + phase) - 1|.  With
\* f = frac(time * speed / 2 + phase) counted in half grid steps,
\* t = (PhaseUnit - |f - PhaseUnit|) grid steps.
shaderReturnProgress(q, i) ==
    LET animTime2 == q.time * q.animationParams[i].speed + 2 * q.animationParams[i].phase
        f == animTime2 % (2 * PhaseUnit)
    IN  PhaseUnit - Abs(f - PhaseUnit)

\* The curve parameter t the vertex shader evaluates for pane i.
shaderParameter(q, i) ==
    IF q.returnModeEnabled THEN shaderReturnProgress(q, i) ELSE shaderProgress(q, i)

(***************************************************************************)
(* The vertex shader's spline.  A curve parameter is given here in         *)
(* thousandths (TUnit to 1.0), the grid of the shader's segment            *)
(* boundaries 0.333 and 0.666; a local parameter is the exact fraction     *)
(* n / d in lowest terms and an evaluated position is exact too: the       *)
(* triple num over the common denominator den.                             *)
(***************************************************************************)
TUnit == 1000
FirstBoundary == 333
SecondBoundary == 666
LastSpan == 334

RECURSIVE Gcd(_, _)
Gcd(a, b) == IF b = 0 THEN a ELSE Gcd(b, a % b)

\* getControlPoint(index): the control points unpacked from the attributes
getControlPoint(q, i, index) ==
    IF index = 0
    THEN << q.controlPointsPack1[i][1], q.controlPointsPack1[i][2], q.controlPointsPack1[i][3] >>
    ELSE IF index = 1
    THEN << q.controlPointsPack1[i][4], q.controlPointsPack2[i][1], q.controlPointsPack2[i][2] >>
    ELSE IF index = 2
    THEN << q.controlPointsPack2[i][3], q.controlPointsPack2[i][4], q.controlPointsPack3[i][1] >>
    ELSE << q.controlPointsPack3[i][2], q.controlPointsPack3[i][3], q.controlPointsPack3[i][4] >>

\* evaluateCatmullRomSegment(p0, p1, p2, p3, t) at t = n / d:
\* 0.5 * (2 p1 + (-p0 + p2) t + (2 p0 - 5 p1 + 4 p2 - p3) t^2
\*        + (-p0 + 3 p1 - 3 p2 + p3) t^3)
evaluateCatmullRomSegment(p0, p1, p2, p3, n, d) ==
    LET at(c) == 2 * p1[c] * d * d * d
                 + (p2[c] - p0[c]) * n * d * d
                 + (2 * p0[c] - 5 * p1[c] + 4 * p2[c] - p3[c]) * n * n * d
                 + (3 * p1[c] - p0[c] - 3 * p2[c] + p3[c]) * n * n * n
    IN  [num |-> << at(1), at(2), at(3) >>, den |-> 2 * d * d * d]

MutSegmentPointsShifted(q, i, segment) ==
    LET p0 == getControlPoint(q, i, 0)
        p1 == getControlPoint(q, i, 1)
        p2 == getControlPoint(q, i, 2)
        p3 == getControlPoint(q, i, 3)
        pBefore == [c \in 1..3 |-> p0[c] + (p0[c] - p1[c])]
        pAfter == [c \in 1..3 |-> p3[c] + (p3[c] - p2[c])]
    IN  IF segment = 0 THEN << pBefore, p0, p1, p2 >>
        ELSE << p1, p2, p3, pAfter >>

\* The four points each of the three segments is evaluated with:
\* (p_before, p0, p1, p2), (p0, p1, p2, p3), (p1, p2, p3, p_after), where
\* p_before = p0 + (p0 - p1) and p_after = p3 + (p3 - p2).
segmentPoints(q, i, segment) ==
    LET p0 == getControlPoint(q, i, 0)
        p1 == getControlPoint(q, i, 1)
        p2 == getControlPoint(q, i, 2)
        p3 == getControlPoint(q, i, 3)
        pBefore == [c \in 1..3 |-> p0[c] + (p0[c] - p1[c])]
        pAfter == [c \in 1..3 |-> p3[c] + (p3[c] - p2[c])]
    IN  IF segment = 0 THEN << pBefore, p0, p1, p2 >>
        ELSE IF segment = 1 THEN << p0, p1, p2, p3 >>
        ELSE << p1, p2, p3, pAfter >>

\* One segment of pane i at the local parameter n / d.
evaluateSegmentAt(q, i, segment, n, d) ==
    LET pts == segmentPoints(q, i, segment)
        g == Gcd(d, n)
    IN  evaluateCatmullRomSegment(pts[1], pts[2], pts[3], pts[4], n \div g, d \div g)

\* evaluateCatmullRom(t): the segment of t and the local parameter in it.
evaluateCatmullRom(q, i, t) ==
    IF t < FirstBoundary
    THEN evaluateSegmentAt(q, i, 0, t, FirstBoundary)
    ELSE IF t < SecondBoundary
    THEN evaluateSegmentAt(q, i, 1, t - FirstBoundary, FirstBoundary)
    ELSE evaluateSegmentAt(q, i, 2, t - SecondBoundary, LastSpan)

\* main(): an instance whose visible flag is below 0.5 collapses to the
\* degenerate position (0, 0, 0, 0); any other instance is drawn from its
\* attributes at its curve parameter.
shaderMain(q, i) ==
    IF 2 * q.animationParams[i].visible < 1
    THEN [glPosition |-> Zero4, drawn |-> FALSE]
    ELSE [drawn |-> TRUE,
          t |-> shaderParameter(q, i),
          controlPoints |-> [k \in 0..3 |-> getControlPoint(q, i, k)],
          color |-> q.instanceColors[i],
          scale |-> q.instanceScales[i],
          tiltMode |-> q.animationParams[i].tiltMode]

(***************************************************************************)
(* The pane renderer driven by an arbitrary caller and the frame clock.    *)
(***************************************************************************)
InitPhase ==
    /\ \E phases \in [PaneSlots -> PhaseInputs] : ps = NewPanesShader(phases)
    /\ mc = NewMergedCurves
    /\ flights = << >>
    /\ params = NoParams
    /\ pc = "idle"
    /\ lastOp = "none"

PanesSetAnimationSpeed ==
    \E index \in PaneIndexInputs, speed \in SpeedInputs :
        /\ ps' = panesSetAnimationSpeed(ps, index, speed)
        /\ lastOp' = "setAnimationSpeed"
        /\ UNCHANGED <<mc, flights, params, pc>>

PanesUpdate ==
    \E deltaTime \in DeltaInputs :
        /\ ps.time + deltaTime <= MaxTime
        /\ ps' = panesUpdate(ps, deltaTime)
        /\ lastOp' = "update"
        /\ UNCHANGED <<mc, flights, params, pc>>

PanesSetReturnMode ==
    \E enabled \in BOOLEAN :
        /\ ps' = panesSetReturnMode(ps, enabled)
        /\ lastOp' = "setReturnMode"
        /\ UNCHANGED <<mc, flights, params, pc>>

NextPhase == PanesSetAnimationSpeed \/ PanesUpdate \/ PanesSetReturnMode

SpecPhase == InitPhase /\ [][NextPhase]_vars

\* C10: in every reachable state (time T >= 0, old speed, old phase), for
\* every pane and every new speed, setAnimationSpeed stores the new speed and
\* a new phase in [0, 1) with frac(T*newSpeed + newPhase) =
\* frac(T*oldSpeed + oldPhase), so the shader's looping parameter t of the
\* pane is the same before and after the call.
PhaseBackSolve ==
    \A index \in PaneSlots, speed \in SpeedInputs :
        LET q == panesSetAnimationSpeed(ps, index, speed)
            old == ps.animationParams[index]
            new == q.animationParams[index]
        IN  /\ q.time = ps.time
            /\ new.speed = speed
            /\ 0 <= new.phase
            /\ new.phase < PhaseUnit
            /\ (ps.time * speed + new.phase) % PhaseUnit
                  = (ps.time * old.speed + old.phase) % PhaseUnit
            /\ shaderProgress(q, index) = shaderProgress(ps, index)

\* setAnimationSpeed has just changed the speed of a pane in mid-flight:
\* time has advanced, the pane has gone round at least once, and its phase
\* is no longer one that the old speed could have kept.
PhaseBackSolveWitness ==
    /\ lastOp = "setAnimationSpeed"
    /\ ps.time > 0
    /\ \E index \in PaneSlots :
          /\ ps.animationParams[index].speed = MaxSpeed
          /\ ps.time * ps.animationParams[index].speed
                + ps.animationParams[index].phase >= PhaseUnit
          /\ ps.animationParams[index].phase > 0

\* C11: with return mode enabled, the curve parameter t of every pane under
\* the ping-pong mapping is the same immediately before and immediately
\* after setAnimationSpeed(index, newSpeed), the shared time not advancing
\* in between.
ReturnModeSpeedChangeContinuity ==
    ps.returnModeEnabled =>
        \A index \in PaneSlots, speed \in SpeedInputs :
            LET q == panesSetAnimationSpeed(ps, index, speed)
            IN  /\ q.time = ps.time
                /\ q.returnModeEnabled
                /\ shaderParameter(q, index) = shaderParameter(ps, index)

(***************************************************************************)
(* Flight.update and Flight.setReturnFlight of a flight whose panes are    *)
(* CPU-based: the flight keeps its own animation time and computes the     *)
(* curve parameter of its pane on every frame.                             *)
(***************************************************************************)
\* _applyAnimationSpeedSmoothing(deltaTime): with a frame time of a whole
\* second (or none) the factor min(1, deltaTime * 6) is 1 and the speed
\* reaches its target in one step.
flightSmoothedSpeed(f, deltaTime) == f.animationSpeedTarget

MutFlightParameterSawtooth(f) ==
    LET cycle == f.animationTime % (2 * PhaseUnit)
    IN  IF f.returnFlight
        THEN IF cycle > PhaseUnit THEN cycle - PhaseUnit ELSE cycle
        ELSE f.animationTime % PhaseUnit

\* let t = animationTime % 1; if (returnFlight) { cycle = animationTime % 2;
\* t = cycle > 1 ? 2 - cycle : cycle }
flightParameter(f) ==
    LET cycle == f.animationTime % (2 * PhaseUnit)
    IN  IF f.returnFlight
        THEN IF cycle > PhaseUnit THEN 2 * PhaseUnit - cycle ELSE cycle
        ELSE f.animationTime % PhaseUnit

\* update(deltaTime): the flight after the call.
flightUpdate(f, deltaTime) ==
    LET f1 == [f EXCEPT !.animationSpeed = flightSmoothedSpeed(f, deltaTime)]
    IN  IF f1.isShaderBasedPanes THEN f1
        ELSE IF ~f1.cachedCurve \/ f1.paneIndex < 0 THEN f1
        ELSE LET f2 == [f1 EXCEPT !.animationTime = @ + deltaTime * f1.animationSpeed]
             IN  [f2 EXCEPT !.cpuPaneT = flightParameter(f2)]

\* setReturnFlight(enabled)
flightSetReturnFlight(f, enabled) ==
    [f EXCEPT !.returnFlight = enabled,
              !.animationTime = IF enabled THEN @ % (2 * PhaseUnit) ELSE @ % PhaseUnit]

\* A created flight over CPU-based panes (no setCurveControlPoints method).
CpuFlight ==
    [NewFlight([controlPoints |-> <<PtA, PtB, PtC>>, curveColor |-> DefaultCurveColor], 0)
        EXCEPT !.cachedCurve = TRUE]

\* The animation time up to which the flight is followed: two periods.
MaxAnimationTime == 4 * PhaseUnit

InitReturn ==
    /\ \E phases \in [PaneSlots -> PhaseInputs] :
          ps = panesSetReturnMode(NewPanesShader(phases), TRUE)
    /\ mc = NewMergedCurves
    /\ flights = << CpuFlight >>
    /\ params = NoParams
    /\ pc = "idle"
    /\ lastOp = "none"

FlightUpdate ==
    \E deltaTime \in DeltaInputs :
        /\ flights[1].animationTime + deltaTime * flights[1].animationSpeed
              <= MaxAnimationTime
        /\ flights' = [flights EXCEPT ![1] = flightUpdate(@, deltaTime)]
        /\ lastOp' = "Flight.update"
        /\ UNCHANGED <<mc, ps, params, pc>>

FlightSetReturnFlight ==
    \E enabled \in BOOLEAN :
        /\ flights' = [flights EXCEPT ![1] = flightSetReturnFlight(@, enabled)]
        /\ lastOp' = "Flight.setReturnFlight"
        /\ UNCHANGED <<mc, ps, params, pc>>

NextReturn == FlightUpdate \/ FlightSetReturnFlight

SpecReturn == InitReturn /\ [][NextReturn]_vars

\* The ping-pong period of a speed, in seconds, for the speeds whose period
\* is a whole number of seconds.
PeriodSpeeds == { s \in SpeedInputs : s > 0 /\ (2 * PhaseUnit) % s = 0 }
Period(speed) == (2 * PhaseUnit) \div speed

\* The parameter the shader evaluates for pane index at time x, the pane
\* running at the given speed since time 0.
ReturnParameterAt(q, index, speed, x) ==
    shaderParameter(panesUpdate(panesSetAnimationSpeed(q, index, speed), x), index)

\* The parameter a CPU-based flight in return mode computes at animation
\* time a.
FlightParameterAt(f, a) ==
    flightParameter([f EXCEPT !.returnFlight = TRUE, !.animationTime = a])

\* A CPU-based flight in return mode has placed its pane at the parameter of
\* its animation time, which lies in [0, 1].
FlightReturnParameterInRange ==
    \A k \in DOMAIN flights :
        (flights[k].returnFlight /\ lastOp = "Flight.update") =>
            /\ flights[k].cpuPaneT = flightParameter(flights[k])
            /\ flights[k].cpuPaneT \in 0 .. PhaseUnit

\* C12 as stated: with return mode enabled the mapping of every pane is
\* symmetric over one period, t(x) = t(period - x) for every x in
\* [0, period], and stays in [0, 1]: the CPU fallback in its animation time
\* (period 2) and the shader's ping-pong mapping with the pane's speed and
\* phase, whatever the phase.
ReturnModeSymmetryAnyPhase ==
    /\ FlightReturnParameterInRange
    /\ \A k \in DOMAIN flights, a \in 0 .. (2 * PhaseUnit) :
          FlightParameterAt(flights[k], a) = FlightParameterAt(flights[k], 2 * PhaseUnit - a)
    /\ ps.returnModeEnabled =>
          \A index \in PaneSlots, speed \in PeriodSpeeds, x \in 0 .. (2 * PhaseUnit) :
              x <= Period(speed) =>
                  /\ ReturnParameterAt(ps, index, speed, x) \in 0 .. PhaseUnit
                  /\ ReturnParameterAt(ps, index, speed, x)
                        = ReturnParameterAt(ps, index, speed, Period(speed) - x)

\* C12 (amended): the same, the symmetry of the shader's mapping being
\* claimed for the panes whose phase is 0 or 1/2 only; the range [0, 1]
\* holds for every pane.
ReturnModeSymmetry ==
    /\ FlightReturnParameterInRange
    /\ \A k \in DOMAIN flights, a \in 0 .. (2 * PhaseUnit) :
          /\ FlightParameterAt(flights[k], a) \in 0 .. PhaseUnit
          /\ FlightParameterAt(flights[k], a) = FlightParameterAt(flights[k], 2 * PhaseUnit - a)
    /\ ps.returnModeEnabled =>
          \A index \in PaneSlots, speed \in PeriodSpeeds, x \in 0 .. (2 * PhaseUnit) :
              x <= Period(speed) =>
                  /\ ReturnParameterAt(ps, index, speed, x) \in 0 .. PhaseUnit
                  /\ (2 * ps.animationParams[index].phase) % PhaseUnit = 0 =>
                        ReturnParameterAt(ps, index, speed, x)
                            = ReturnParameterAt(ps, index, speed, Period(speed) - x)

\* A CPU-based flight in return mode is on its way back (its animation time
\* is in the second half of the period and its pane below the far end),
\* next to a shader pane in return mode whose phase is 1/2.
ReturnModeSymmetryWitness ==
    /\ lastOp = "Flight.update"
    /\ flights[1].returnFlight
    /\ flights[1].animationTime % (2 * PhaseUnit) > PhaseUnit
    /\ flights[1].cpuPaneT \in 1 .. (PhaseUnit - 1)
    /\ ps.returnModeEnabled
    /\ \E index \in PaneSlots : 2 * ps.animationParams[index].phase = PhaseUnit

(***************************************************************************)
(* The pane renderer's slots: control points, visibility, the global       *)
(* settings and the clock, driven by an arbitrary caller.                  *)
(***************************************************************************)
PaneSquare == << <<0, 0, 0>>, <<100, 0, 0>>, <<100, 100, 0>>, <<0, 100, 0>> >>
PaneFive == << PtA, PtB, PtC, PtB, PtA >>
ValidPanePoints == { PaneSquare, PaneFive }
ShortPanePoints == { << >>, << PtA, PtB, PtC >> }

ElevationOffset == 15
SizeInputs == { BaseSize \div 2, BaseSize }
ElevationInputs == { 0, ElevationOffset }
TiltModeInputs == { "Perpendicular", "Tangent" }
TextureIndexInputs == -1 .. (AtlasColumns * AtlasRows)
TextureInputs == { <<"null", NoAtlas>>, <<"atlas", NoAtlas>>, <<"atlas", AtlasInfo>> }
PanePhaseInputs == { PhaseUnit \div 2 }

\* The renderer after each call of the five attribute setters.
AttributeSetterResults(q, indices) ==
    { panesSetPaneColor(q, i, c) : i \in indices, c \in ColorInputs }
    \cup { panesSetPaneSize(q, i, z) : i \in indices, z \in SizeInputs }
    \cup { panesSetElevationOffset(q, i, e) : i \in indices, e \in ElevationInputs }
    \cup { panesSetTiltMode(q, i, m) : i \in indices, m \in TiltModeInputs }
    \cup { panesSetTextureIndex(q, i, x) : i \in indices, x \in TextureIndexInputs }

\* The renderer after each call that is neither setCurveControlPoints nor
\* hidePane nor update.
OtherCallResults(q, indices) ==
    AttributeSetterResults(q, indices)
    \cup { panesSetAnimationSpeed(q, i, v) : i \in indices, v \in SpeedInputs }
    \cup { panesSetReturnMode(q, b) : b \in BOOLEAN }
    \cup { panesSetActivePaneCount(q, n) : n \in 0 .. (q.maxPanes + 1) }
    \cup { panesSetTexture(q, x[1], x[2]) : x \in TextureInputs }

\* The renderer after each per-index call with invalid input: an index
\* outside [0, maxPanes), or fewer than 4 control points.
RejectedCallResults(q) ==
    OtherCallResults(q, {-1, q.maxPanes})
    \cup { panesSetCurveControlPoints(q, i, p) :
              i \in {-1, q.maxPanes}, p \in ValidPanePoints \cup ShortPanePoints }
    \cup { panesSetCurveControlPoints(q, i, p) :
              i \in 0 .. (q.maxPanes - 1), p \in ShortPanePoints }
    \cup { panesHidePane(q, i) : i \in {-1, q.maxPanes} }

InitPanes ==
    /\ \E phases \in [PaneSlots -> PanePhaseInputs] : ps = NewPanesShader(phases)
    /\ mc = NewMergedCurves
    /\ flights = << >>
    /\ params = NoParams
    /\ pc = "idle"
    /\ lastOp = "none"

PanesBecomes(q, op) ==
    /\ ps' = q
    /\ lastOp' = op
    /\ UNCHANGED <<mc, flights, params, pc>>

PanesSetCurveControlPoints ==
    \E index \in PaneSlots, controlPoints \in ValidPanePoints :
        PanesBecomes(panesSetCurveControlPoints(ps, index, controlPoints),
                     "setCurveControlPoints")

PanesHidePane ==
    \E index \in PaneSlots : PanesBecomes(panesHidePane(ps, index), "hidePane")

PanesRejectedCall ==
    \E q \in RejectedCallResults(ps) : PanesBecomes(q, "rejected")

PanesSetActivePaneCount ==
    \E count \in 0 .. (MaxPanes + 1) :
        PanesBecomes(panesSetActivePaneCount(ps, count), "setActivePaneCount")

PanesSetTexture ==
    \E x \in TextureInputs : PanesBecomes(panesSetTexture(ps, x[1], x[2]), "setTexture")

NextPanes ==
    \/ PanesSetCurveControlPoints
    \/ PanesHidePane
    \/ PanesRejectedCall
    \/ PanesSetReturnMode
    \/ PanesSetActivePaneCount
    \/ PanesSetTexture
    \/ PanesUpdate

SpecPanes == InitPanes /\ [][NextPanes]_vars

\* An evaluated position is the point p.
IsAt(pos, p) == \A c \in 1..3 : pos.num[c] = p[c] * pos.den

\* Two evaluated positions are the same point.
SamePosition(a, b) == \A c \in 1..3 : a.num[c] * b.den = b.num[c] * a.den

\* C13: the control points a pane stores are the four it was given, and the
\* shader's three-segment spline passes exactly through them: p0 at t = 0,
\* p1 at the first segment boundary, p2 at the second and p3 at t = 1; at
\* both interior boundaries the end of one segment is the start of the next;
\* for the points (0,0,0), (100,0,0), (100,100,0), (0,100,0) the position at
\* the first boundary is (100,0,0).
SplineThroughControlPoints ==
    \A i \in PaneSlots :
        /\ \A pts \in ValidPanePoints, k \in 0..3 :
              getControlPoint(panesSetCurveControlPoints(ps, i, pts), i, k) = pts[k + 1]
        /\ IsAt(evaluateCatmullRom(ps, i, 0), getControlPoint(ps, i, 0))
        /\ IsAt(evaluateCatmullRom(ps, i, FirstBoundary), getControlPoint(ps, i, 1))
        /\ IsAt(evaluateCatmullRom(ps, i, SecondBoundary), getControlPoint(ps, i, 2))
        /\ IsAt(evaluateCatmullRom(ps, i, TUnit), getControlPoint(ps, i, 3))
        /\ SamePosition(evaluateSegmentAt(ps, i, 0, 1, 1),
                        evaluateCatmullRom(ps, i, FirstBoundary))
        /\ SamePosition(evaluateSegmentAt(ps, i, 1, 1, 1),
                        evaluateCatmullRom(ps, i, SecondBoundary))
        /\ (\A k \in 0..3 : getControlPoint(ps, i, k) = PaneSquare[k + 1]) =>
              IsAt(evaluateCatmullRom(ps, i, FirstBoundary), <<100, 0, 0>>)

\* A visible pane stores the square of the end-to-end scenario.
SplineThroughControlPointsWitness ==
    /\ lastOp = "setCurveControlPoints"
    /\ \E i \in PaneSlots :
          /\ ps.animationParams[i].visible = 1
          /\ \A k \in 0..3 : getControlPoint(ps, i, k) = PaneSquare[k + 1]

\* C14: a per-index pane call with invalid input (setCurveControlPoints with
\* fewer than 4 points, or any of setCurveControlPoints, setPaneColor,
\* setPaneSize, setElevationOffset, setAnimationSpeed, setTiltMode,
\* setTextureIndex, hidePane with an index outside [0, maxPanes)) leaves
\* every instance attribute array, the visible flags included, unchanged.
InvalidPaneInputIsNoOp ==
    \A q \in RejectedCallResults(ps) :
        /\ q.controlPointsPack1 = ps.controlPointsPack1
        /\ q.controlPointsPack2 = ps.controlPointsPack2
        /\ q.controlPointsPack3 = ps.controlPointsPack3
        /\ q.instanceColors = ps.instanceColors
        /\ q.instanceScales = ps.instanceScales
        /\ q.instanceElevations = ps.instanceElevations
        /\ q.instanceUvTransforms = ps.instanceUvTransforms
        /\ q.animationParams = ps.animationParams
        /\ q.needsUpdate = ps.needsUpdate

\* An invalid call has just been made on a renderer that holds a visible
\* pane and an atlas.
InvalidPaneInputWitness ==
    /\ lastOp = "rejected"
    /\ ps.atlasInfo # NoAtlas
    /\ ps.time > 0
    /\ \E i \in PaneSlots : ps.animationParams[i].visible = 1

Visible(q) == [i \in DOMAIN q.animationParams |-> q.animationParams[i].visible]

UpdateChangesOnlyTime ==
    /\ \A deltaTime \in {0} \cup DeltaInputs :
          LET q == panesUpdate(ps, deltaTime)
          IN  /\ q.time = ps.time + deltaTime
              /\ q.time >= ps.time
              /\ [q EXCEPT !.time = ps.time] = ps
    /\ \A q \in OtherCallResults(ps, PaneIndexInputs) \cup RejectedCallResults(ps)
                \cup { panesSetCurveControlPoints(ps, i, p) :
                          i \in PaneSlots, p \in ValidPanePoints }
                \cup { panesHidePane(ps, i) : i \in PaneSlots } :
          q.time = ps.time

\* The clock has advanced over several frames of a renderer in return mode
\* that holds a visible pane and a texture.
UpdateChangesOnlyTimeWitness ==
    /\ lastOp = "update"
    /\ ps.time > 1
    /\ ps.returnModeEnabled
    /\ ps.useTexture = 1
    /\ \E i \in PaneSlots : ps.animationParams[i].visible = 1

(***************************************************************************)
(* The five attribute setters of the pane renderer and the draw.  The      *)
(* renderer holds the atlas texture the host applies on start.             *)
(***************************************************************************)
InitSetters ==
    /\ \E phases \in [PaneSlots -> PanePhaseInputs] :
          ps = panesSetTexture(NewPanesShader(phases), "atlas", AtlasInfo)
    /\ mc = NewMergedCurves
    /\ flights = << >>
    /\ params = NoParams
    /\ pc = "idle"
    /\ lastOp = "none"

PanesSetPaneColor ==
    \E index \in PaneSlots :
        PanesBecomes(panesSetPaneColor(ps, index, PaneColorHex), "setPaneColor")

PanesSetPaneSize ==
    \E index \in PaneSlots :
        PanesBecomes(panesSetPaneSize(ps, index, BaseSize), "setPaneSize")

PanesSetElevationOffset ==
    \E index \in PaneSlots :
        PanesBecomes(panesSetElevationOffset(ps, index, ElevationOffset),
                     "setElevationOffset")

PanesSetTiltMode ==
    \E index \in PaneSlots, mode \in TiltModeInputs :
        PanesBecomes(panesSetTiltMode(ps, index, mode), "setTiltMode")

PanesSetTextureIndex ==
    \E index \in PaneSlots :
        PanesBecomes(panesSetTextureIndex(ps, index, 1), "setTextureIndex")

PanesDraw == PanesBecomes(uploadPaneAttributes(ps), "render")

NextSetters ==
    \/ PanesSetPaneColor
    \/ PanesSetPaneSize
    \/ PanesSetElevationOffset
    \/ PanesSetTiltMode
    \/ PanesSetTextureIndex
    \/ PanesDraw

SpecSetters == InitSetters /\ [][NextSetters]_vars

\* The renderer q differs from p at most in the marks and in the named
\* field at the given index.
OnlyColorChanged(p, q, index) ==
    [q EXCEPT !.needsUpdate = p.needsUpdate,
              !.instanceColors[index] = p.instanceColors[index]] = p

OnlyScaleChanged(p, q, index) ==
    [q EXCEPT !.needsUpdate = p.needsUpdate,
              !.instanceScales[index] = p.instanceScales[index]] = p

OnlyElevationChanged(p, q, index) ==
    [q EXCEPT !.needsUpdate = p.needsUpdate,
              !.instanceElevations[index] = p.instanceElevations[index]] = p

OnlyUvChanged(p, q, index) ==
    [q EXCEPT !.needsUpdate = p.needsUpdate,
              !.instanceUvTransforms[index] = p.instanceUvTransforms[index]] = p

OnlyTiltChanged(p, q, index) ==
    [q EXCEPT !.needsUpdate = p.needsUpdate,
              !.animationParams[index].tiltMode = p.animationParams[index].tiltMode] = p

ResampleFirst == 333
ResampleSecond == 666

MutResampleAlways(controlPoints) ==
    << getPoint(controlPoints, 0, TUnit),
       getPoint(controlPoints, ResampleFirst, TUnit),
       getPoint(controlPoints, ResampleSecond, TUnit),
       getPoint(controlPoints, TUnit, TUnit) >>

\* resampleTo4Points(controlPoints): a list of 4 is returned as it is, any
\* other is sampled at curve.getPoint(0.0), (0.333), (0.666) and (1.0).
resampleTo4Points(controlPoints) ==
    IF Len(controlPoints) = 4 THEN controlPoints
    ELSE << getPoint(controlPoints, 0, TUnit),
            getPoint(controlPoints, ResampleFirst, TUnit),
            getPoint(controlPoints, ResampleSecond, TUnit),
            getPoint(controlPoints, TUnit, TUnit) >>

\* _applyPaneTextureIndex()
flightApplyPaneTextureIndex(q, flight) ==
    IF ~flight.isShaderBasedPanes \/ flight.paneIndex < 0 THEN q
    ELSE panesSetTextureIndex(q, flight.paneIndex, flight.textureIndex)

\* create(), second half: the pane is initialized in the merged renderer.
flightCreatePane(q, flight) ==
    IF flight.paneIndex < 0 THEN q
    ELSE
      LET i == flight.paneIndex
          q1 == panesSetCurveControlPoints(q, i, resampleTo4Points(flight.controlPoints))
          q2 == panesSetPaneColor(q1, i, flight.paneColor)
          q3 == panesSetPaneSize(q2, i, flight.paneSize)
          q4 == panesSetElevationOffset(q3, i, flight.elevationOffset)
          q5 == panesSetAnimationSpeed(q4, i, flight.animationSpeed)
          q6 == panesSetTiltMode(q5, i, flight.tiltMode)
      IN  flightApplyPaneTextureIndex(q6, [flight EXCEPT !.isShaderBasedPanes = TRUE])

\* The flight object after create().
flightCreated(flight) ==
    [flight EXCEPT !.cachedCurve = (flight.curveIndex >= 0),
                   !.isShaderBasedPanes = (flight.paneIndex >= 0)]

\* setControlPoints(controlPoints), second half.
flightSetControlPointsPane(q, flight, controlPoints) ==
    IF flight.isShaderBasedPanes /\ flight.paneIndex >= 0
    THEN panesSetCurveControlPoints(q, flight.paneIndex, resampleTo4Points(controlPoints))
    ELSE q

MutFlightRemoveKeepsPane(q, flight) == q

\* remove(), second half.
flightRemovePane(q, flight) ==
    IF flight.paneIndex >= 0 THEN panesHidePane(q, flight.paneIndex) ELSE q

\* update(deltaTime) on the pane renderer: the speed smoothing hands a
\* changed speed to setAnimationSpeed; a shader-based flight returns then.
flightUpdatePane(q, flight, deltaTime) ==
    IF flight.animationSpeed # flight.animationSpeedTarget
       /\ flight.isShaderBasedPanes /\ flight.paneIndex >= 0
    THEN panesSetAnimationSpeed(q, flight.paneIndex, flightSmoothedSpeed(flight, deltaTime))
    ELSE q

\* setAnimationSpeed(speed): the target is set and handed to the renderer.
flightSetAnimationSpeed(flight, speed) ==
    [flight EXCEPT !.animationSpeedTarget = speed]

flightSetAnimationSpeedPane(q, flight, speed) ==
    IF flight.isShaderBasedPanes /\ flight.paneIndex >= 0
    THEN panesSetAnimationSpeed(q, flight.paneIndex, speed)
    ELSE q

(***************************************************************************)
(* One flight on slot 0 of both renderers, driven by an arbitrary caller.  *)
(***************************************************************************)
PtD == <<6, 2, 0>>
PtE == <<4, 8, 2>>
PtF == <<10, 4, 8>>
PtG == <<2, 10, 6>>

FlightPointInputs ==
    { <<PtC, PtA>>,
      <<PtA, PtB, PtC>>,
      <<PtA, PtB, PtC, PtD>>,
      <<PtD, PtC, PtB, PtA>>,
      <<PtA, PtB, PtC, PtD, PtE>>,
      <<PtA, PtB, PtC, PtD, PtE, PtF, PtG>> }

ShaderFlight(controlPoints) ==
    NewFlight([controlPoints |-> controlPoints, curveColor |-> DefaultCurveColor], 0)

InitFlight ==
    /\ \E phases \in [PaneSlots -> PanePhaseInputs], controlPoints \in FlightPointInputs :
          LET flight == ShaderFlight(controlPoints)
          IN  /\ mc = flightCreate(NewMergedCurves, flight)
              /\ ps = flightCreatePane(NewPanesShader(phases), flight)
              /\ flights = << flightCreated(flight) >>
    /\ params = NoParams
    /\ pc = "idle"
    /\ lastOp = "Flight.create"

\* A new flight is created on the slot (the host builds its flights anew).
FlightCreate ==
    \E controlPoints \in FlightPointInputs :
        LET flight == ShaderFlight(controlPoints)
        IN  /\ mc' = flightCreate(mc, flight)
            /\ ps' = flightCreatePane(ps, flight)
            /\ flights' = << flightCreated(flight) >>
            /\ lastOp' = "Flight.create"
            /\ UNCHANGED <<params, pc>>

FlightSetControlPoints ==
    \E controlPoints \in FlightPointInputs :
        /\ mc' = flightSetControlPoints(mc, flights[1], controlPoints)
        /\ ps' = flightSetControlPointsPane(ps, flights[1], controlPoints)
        /\ flights' = [flights EXCEPT ![1].controlPoints = controlPoints]
        /\ lastOp' = "Flight.setControlPoints"
        /\ UNCHANGED <<params, pc>>

FlightRemove ==
    /\ mc' = flightRemove(mc, flights[1])
    /\ ps' = flightRemovePane(ps, flights[1])
    /\ flights' = [flights EXCEPT ![1].cachedCurve = FALSE]
    /\ lastOp' = "Flight.remove"
    /\ UNCHANGED <<params, pc>>

\* A frame: the shared clock advances, pending curve updates are applied
\* and the draw uploads the marked attributes.
FlightFrame ==
    \E deltaTime \in DeltaInputs :
        /\ ps.time + deltaTime <= MaxTime
        /\ ps' = uploadPaneAttributes(panesUpdate(ps, deltaTime))
        /\ mc' = uploadAttributes(animateUpdates(mc))
        /\ lastOp' = "animate"
        /\ UNCHANGED <<flights, params, pc>>

NextFlight ==
    \/ FlightCreate
    \/ FlightSetControlPoints
    \/ FlightRemove
    \/ FlightFrame

SpecFlight == InitFlight /\ [][NextFlight]_vars

\* The four control points stored in pane slot i.
StoredPanePoints(q, i) ==
    << getControlPoint(q, i, 0), getControlPoint(q, i, 1),
       getControlPoint(q, i, 2), getControlPoint(q, i, 3) >>

\* C19: resampleTo4Points returns a list of exactly 4 points as it is (same
\* points, same order), so resampling the result of a resampling gives that
\* result again, for every list of at least 2 points; a flight given a
\* 4-point list stores exactly those points in its pane slot.
ResamplingIdempotent ==
    \A P \in FlightPointInputs :
        /\ Len(resampleTo4Points(P)) = 4
        /\ (Len(P) = 4 => resampleTo4Points(P) = P)
        /\ resampleTo4Points(resampleTo4Points(P)) = resampleTo4Points(P)
        /\ (Len(P) = 4 =>
              StoredPanePoints(flightSetControlPointsPane(ps, flights[1], P),
                               flights[1].paneIndex) = P)

\* The flight was given a 4-point list after a longer one and its pane slot
\* holds that list.
ResamplingIdempotentWitness ==
    /\ lastOp = "Flight.setControlPoints"
    /\ StoredPanePoints(ps, 0) = <<PtD, PtC, PtB, PtA>>
    /\ flights[1].controlPoints = <<PtD, PtC, PtB, PtA>>
    /\ ps.time > 0

\* C20: setControlPoints(P) and create() with P of at least 2 points hand
\* the whole list P to the curve slot and store exactly 4 points in the pane
\* slot; for more than 4 points these are the spline through P at t = 0,
\* 1/3, 2/3 and 1.
ResampledAtThirds ==
    \A P \in FlightPointInputs :
        LET f == flights[1]
            afterSet == StoredPanePoints(flightSetControlPointsPane(ps, f, P), f.paneIndex)
            g == ShaderFlight(P)
            afterCreate == StoredPanePoints(flightCreatePane(ps, g), g.paneIndex)
            thirds == << getPoint(P, 0, 3), getPoint(P, 1, 3),
                         getPoint(P, 2, 3), getPoint(P, 3, 3) >>
        IN  /\ flightSetControlPoints(mc, f, P).curveData[f.curveIndex].controlPoints = P
            /\ flightCreate(mc, g).curveData[g.curveIndex].controlPoints = P
            /\ afterSet[1] = P[1] /\ afterSet[4] = P[Len(P)]
            /\ afterCreate = afterSet
            /\ (Len(P) > 4 => afterSet = thirds)

(***************************************************************************)
(* The GPU-batched host page with both renderers.  A host state h is       *)
(* [mc, ps, flights, params]; params holds numFlights, hidePath,           *)
(* animationSpeed and returnFlight.  The curve side of each handler is the *)
(* one given above; the pane side and the flight objects are added here.   *)
(***************************************************************************)
\* new Flight(scene, flightConfig) as the host builds it: speed, elevation
\* and return flag come from params.
HostFlight(h, config, flightIndex) ==
    [NewFlight(config, flightIndex) EXCEPT
        !.animationSpeed = h.params.animationSpeed,
        !.animationSpeedTarget = h.params.animationSpeed,
        !.elevationOffset = ElevationOffset,
        !.returnFlight = h.params.returnFlight]

\* createFlightFromConfig(config, flightIndex): create(), then
\* setAnimationSpeed(speed, {immediate: true}), setTiltMode(params.tiltMode),
\* setPaneElevation and setReturnFlight.
frameCreateFlightFromConfig(h, config, flightIndex) ==
    LET f0 == HostFlight(h, config, flightIndex)
        f1 == flightCreated(f0)
        q1 == flightCreatePane(h.ps, f0)
        q2 == flightSetAnimationSpeedPane(q1, f1, h.params.animationSpeed)
        q3 == panesSetTiltMode(q2, f1.paneIndex, "Tangent")
        q4 == panesSetElevationOffset(q3, f1.paneIndex, ElevationOffset)
        f2 == flightSetReturnFlight([f1 EXCEPT !.tiltMode = "Tangent"],
                                    h.params.returnFlight)
    IN  [h EXCEPT !.mc = flightCreate(h.mc, f0),
                  !.ps = q4,
                  !.flights = Append(h.flights, f2)]

RECURSIVE frameCreateFlights(_, _, _, _)
frameCreateFlights(h, from, to, cfgs) ==
    IF from >= to THEN h
    ELSE frameCreateFlights(frameCreateFlightFromConfig(h, cfgs[from], from),
                            from + 1, to, cfgs)

\* flightsToRemove.forEach(flight => flight.remove()): the pane side
RECURSIVE removeFlightPanes(_, _, _)
removeFlightPanes(q, fs, k) ==
    IF k > Len(fs) THEN q ELSE removeFlightPanes(flightRemovePane(q, fs[k]), fs, k + 1)

\* updatePlaneVisibility(): hidePlane is off
updatePlaneVisibility(h) ==
    [h EXCEPT !.ps = panesSetActivePaneCount(h.ps, Len(h.flights))]

\* applyReturnMode()
applyReturnMode(h) ==
    [h EXCEPT
       !.flights = [k \in DOMAIN h.flights |->
                       flightSetReturnFlight(h.flights[k], h.params.returnFlight)],
       !.ps = panesSetReturnMode(h.ps, h.params.returnFlight)]

\* initializeFlights() with both renderers; the texture is not loaded yet
\* (applyPaneTexture: setTexture(null)).
frameInitializeFlights(h, cfgs, phases) ==
    LET desiredCount == Min(h.params.numFlights, MaxFlights)
        h1 == updateDashPattern(
                [h EXCEPT !.flights = << >>,
                          !.mc = NewMergedCurves,
                          !.ps = panesSetTexture(
                                    [NewPanesShader(phases) EXCEPT
                                        !.returnModeEnabled = h.params.returnFlight],
                                    "null", NoAtlas),
                          !.params.numFlights = desiredCount])
        h2 == frameCreateFlights(h1, 0, desiredCount, cfgs)
    IN  applyReturnMode(updatePlaneVisibility(updatePathVisibility(h2)))

MutUpdateFlightCountKeepsPanes(h, count, cfgs) ==
    LET oldCount == Len(h.flights)
        targetCount == Min(count, MaxFlights)
        h1 == [h EXCEPT !.params.numFlights = targetCount]
        h2 == IF targetCount > oldCount
              THEN IF targetCount > 1
                   THEN LET h3 == frameCreateFlights(h1, oldCount, targetCount, cfgs)
                        IN  [h3 EXCEPT !.mc = applyUpdates(h3.mc)]
                   ELSE h1
              ELSE IF targetCount < oldCount
                   THEN [h1 EXCEPT
                           !.flights = SubSeq(h1.flights, 1, targetCount),
                           !.mc = removeFlights(h1.mc, h1.flights, targetCount + 1)]
                   ELSE h1
    IN  updatePlaneVisibility(updatePathVisibility(h2))

\* updateFlightCount(count) with both renderers
frameUpdateFlightCount(h, count, cfgs) ==
    LET oldCount == Len(h.flights)
        targetCount == Min(count, MaxFlights)
        h1 == [h EXCEPT !.params.numFlights = targetCount]
        h2 == IF targetCount > oldCount
              THEN IF targetCount > 1
                   THEN LET h3 == frameCreateFlights(h1, oldCount, targetCount, cfgs)
                        IN  [h3 EXCEPT !.mc = applyUpdates(h3.mc)]
                   ELSE h1
              ELSE IF targetCount < oldCount
                   THEN [h1 EXCEPT
                           !.flights = SubSeq(h1.flights, 1, targetCount),
                           !.mc = removeFlights(h1.mc, h1.flights, targetCount + 1),
                           !.ps = removeFlightPanes(h1.ps, h1.flights, targetCount + 1)]
                   ELSE h1
    IN  updatePlaneVisibility(updatePathVisibility(h2))

\* updateAnimationSpeed(value): applyAnimationSpeedMode() hands the speed to
\* every flight (flight.setAnimationSpeed(speed), not immediate).
RECURSIVE applyAnimationSpeedMode(_, _)
applyAnimationSpeedMode(h, k) ==
    IF k > Len(h.flights) THEN h
    ELSE applyAnimationSpeedMode(
            [h EXCEPT
               !.ps = flightSetAnimationSpeedPane(h.ps, h.flights[k], h.params.animationSpeed),
               !.flights[k] = flightSetAnimationSpeed(h.flights[k], h.params.animationSpeed)],
            k + 1)

updateAnimationSpeed(h, value) ==
    applyAnimationSpeedMode([h EXCEPT !.params.animationSpeed = value], 1)

MutUpdateReturnFlightRendererOnly(h, value) ==
    [h EXCEPT !.params.returnFlight = value,
              !.ps = panesSetReturnMode(h.ps, value)]

\* updateReturnFlight(value): params.returnFlight, then applyReturnMode()
updateReturnFlight(h, value) ==
    applyReturnMode([h EXCEPT !.params.returnFlight = value])

\* randomizeAllFlightCurves(): every flight gets new control points and a
\* new curve color (setControlPoints, setPaneElevation, setPaneTextureIndex,
\* setCurveColor, setPaneColor, setAnimationSpeed, setReturnFlight), then
\* mergedCurves.applyUpdates().
RECURSIVE frameRandomizeFlights(_, _, _)
frameRandomizeFlights(h, k, cfgs) ==
    IF k > Len(h.flights) THEN h
    ELSE
      LET flight == h.flights[k]
          config == cfgs[k - 1]
          i == flight.paneIndex
          r1 == flightSetControlPoints(h.mc, flight, config.controlPoints)
          q1 == flightSetControlPointsPane(h.ps, flight, config.controlPoints)
          q2 == panesSetElevationOffset(q1, i, ElevationOffset)
          f1 == [flight EXCEPT !.controlPoints = config.controlPoints,
                               !.elevationOffset = ElevationOffset,
                               !.textureIndex = 0]
          q3 == flightApplyPaneTextureIndex(q2, f1)
          r2 == flightSetCurveColor(r1, f1, config.curveColor)
          q4 == panesSetPaneColor(q3, i, PaneColorHex)
          q5 == flightSetAnimationSpeedPane(q4, f1, h.params.animationSpeed)
          f2 == flightSetReturnFlight(
                   flightSetAnimationSpeed(
                      [f1 EXCEPT !.color = config.curveColor, !.paneColor = PaneColorHex],
                      h.params.animationSpeed),
                   h.params.returnFlight)
      IN  frameRandomizeFlights([h EXCEPT !.mc = r2, !.ps = q5, !.flights[k] = f2],
                                k + 1, cfgs)

frameRandomizeAllFlightCurves(h, cfgs) ==
    LET h1 == frameRandomizeFlights(h, 1, cfgs)
    IN  [h1 EXCEPT !.mc = applyUpdates(h1.mc)]

\* flights.forEach(flight => flight.update(delta))
RECURSIVE updateFlights(_, _, _)
updateFlights(h, k, delta) ==
    IF k > Len(h.flights) THEN h
    ELSE updateFlights(
            [h EXCEPT !.ps = flightUpdatePane(h.ps, h.flights[k], delta),
                      !.flights[k] = flightUpdate(h.flights[k], delta)],
            k + 1, delta)

MutAnimatePerFlight(h, delta) ==
    LET h1 == updateFlights(h, 1, delta)
    IN  [h1 EXCEPT !.ps = panesUpdate(h1.ps, delta),
                   !.mc = applyUpdates(h1.mc)]

\* animate() up to controls.update(): mergedPanes.update(delta), then
\* mergedCurves.applyUpdates().
animateFrame(h, delta) ==
    [h EXCEPT !.ps = panesUpdate(h.ps, delta),
              !.mc = applyUpdates(h.mc)]

(***************************************************************************)
(* The frame loop of the GPU-batched host between its handlers.            *)
(***************************************************************************)
FrameHost == [mc |-> mc, ps |-> ps, flights |-> flights, params |-> params]

FrameHostBecomes(h, op) ==
    /\ mc' = h.mc
    /\ ps' = h.ps
    /\ flights' = h.flights
    /\ params' = h.params
    /\ lastOp' = op
    /\ UNCHANGED pc

\* The frames followed by the host's loop.
FrameMaxTime == 2

FrameSpeedInputs == { InitialSpeed, MaxSpeed }
FrameSlots == 0 .. (MaxFlights - 1)
FramePhases == [i \in FrameSlots |-> PhaseUnit \div 2]
FrameConfigs == [i \in FrameSlots |->
                   [controlPoints |-> IF i % 2 = 0 THEN <<PtC, PtA>>
                                      ELSE <<PtA, PtB, PtC, PtD, PtE>>,
                    curveColor |-> DefaultCurveColor]]
FrameRandomConfigs == [i \in FrameSlots |->
                   [controlPoints |-> <<PtB, PtC, PtD>>, curveColor |-> PaneColorHex]]

InitFrame ==
    /\ pc = "idle"
    /\ lastOp = "initializeFlights"
    /\ \E n \in 1 .. MaxFlights :
          LET h == frameInitializeFlights(
                      [mc |-> NewMergedCurves, ps |-> NoPanesShader, flights |-> << >>,
                       params |-> [numFlights |-> n, hidePath |-> FALSE,
                                   animationSpeed |-> InitialSpeed,
                                   returnFlight |-> TRUE]],
                      FrameConfigs, FramePhases)
          IN  /\ mc = h.mc
              /\ ps = h.ps
              /\ flights = h.flights
              /\ params = h.params

FrameUpdateFlightCount ==
    /\ pc = "idle"
    /\ \E count \in 1 .. (MaxFlights + 1) :
          FrameHostBecomes(frameUpdateFlightCount(FrameHost, count, FrameConfigs),
                           "updateFlightCount")

FrameUpdateAnimationSpeed ==
    /\ pc = "idle"
    /\ \E value \in FrameSpeedInputs :
          FrameHostBecomes(updateAnimationSpeed(FrameHost, value), "updateAnimationSpeed")

FrameInitializeFlights ==
    /\ pc = "idle"
    /\ FrameHostBecomes(frameInitializeFlights(FrameHost, FrameConfigs, FramePhases),
                        "initializeFlights")

FrameUpdateReturnFlight ==
    /\ pc = "idle"
    /\ \E value \in BOOLEAN :
          FrameHostBecomes(updateReturnFlight(FrameHost, value), "updateReturnFlight")

FrameRandomizeAllFlightCurves ==
    /\ pc = "idle"
    /\ FrameHostBecomes(frameRandomizeAllFlightCurves(FrameHost, FrameRandomConfigs),
                        "randomizeAllFlightCurves")

FrameAnimate ==
    /\ pc = "idle"
    /\ \E delta \in DeltaInputs :
          /\ ps.time + delta <= FrameMaxTime
          /\ LET h == animateFrame(FrameHost, delta)
             IN  /\ mc' = h.mc
                 /\ ps' = h.ps
                 /\ flights' = h.flights
                 /\ params' = h.params
    /\ pc' = "render"
    /\ lastOp' = "animate"

FrameRender ==
    /\ pc = "render"
    /\ mc' = uploadAttributes(mc)
    /\ ps' = uploadPaneAttributes(ps)
    /\ pc' = "idle"
    /\ lastOp' = "render"
    /\ UNCHANGED <<flights, params>>

NextFrame ==
    \/ FrameInitializeFlights
    \/ FrameUpdateFlightCount
    \/ FrameUpdateAnimationSpeed
    \/ FrameUpdateReturnFlight
    \/ FrameRandomizeAllFlightCurves
    \/ FrameAnimate
    \/ FrameRender

SpecFrame == InitFrame /\ [][NextFrame]_vars

\* C18: the updates of a frame, for any number of live flights, are one
\* update(delta) of the pane renderer and one applyUpdates() of the curve
\* renderer and nothing else: the pane renderer changes in its clock only,
\* no flight object changes and no per-index setter has run; and update()
\* of a GPU-batched flight never places its pane (no position or
\* orientation written, animation time untouched).
FrameWorkIndependentOfFlights ==
    /\ (lastOp = "animate" => pc = "render")
    /\ \A delta \in DeltaInputs :
          LET h == animateFrame(FrameHost, delta)
          IN  /\ h.ps = panesUpdate(ps, delta)
              /\ h.mc = applyUpdates(mc)
              /\ h.flights = flights
              /\ h.params = params
    /\ \A k \in DOMAIN flights, delta \in DeltaInputs :
          LET f == flightUpdate(flights[k], delta)
          IN  /\ flights[k].isShaderBasedPanes
              /\ f.cpuPaneT = -1
              /\ f.animationTime = flights[k].animationTime

\* A frame with every flight slot in use is about to draw, after a speed
\* change that left a flight's smoothed speed behind its target.
FrameWorkWitness ==
    /\ pc = "render"
    /\ lastOp = "animate"
    /\ Len(flights) = MaxFlights
    /\ ps.time > 1
    /\ \E k \in DOMAIN flights :
          flights[k].animationSpeed # flights[k].animationSpeedTarget
    /\ \A i \in FrameSlots : ps.animationParams[i].visible = 1

(***************************************************************************)
(* The curve renderer's mesh is a THREE.LineSegments: the draw takes the   *)
(* vertices of the buffer two by two, segment j being the vertices 2j and  *)
(* 2j + 1.                                                                 *)
(***************************************************************************)
LineSegmentsOf(r) ==
    { << r.positions[2 * j], r.positions[2 * j + 1], j >> :
         j \in 0 .. ((TotalPoints \div 2) - 1) }

\* C25: after setCurve(i, ...) every pair (sample k, sample k+1),
\* k in 0..segmentsPerCurve-1, of the sampled curve is one line segment (two
\* adjacent vertices) inside the region of slot i, so that all
\* segmentsPerCurve+1 samples lie within the slot.
SetCurveSegmentLayout ==
    \A i \in CurveSlots, pts \in ValidControlPoints, c \in ColorInputs :
        LET r == setCurve(mc, i, pts, c)
            samples == getPoints(pts, SegmentsPerCurve)
        IN  \A k \in 0 .. (SegmentsPerCurve - 1) :
              \E seg \in LineSegmentsOf(r) :
                  /\ seg[1] = samples[k]
                  /\ seg[2] = samples[k + 1]
                  /\ InSlot(2 * seg[3], i)
                  /\ InSlot(2 * seg[3] + 1, i)

\* C26: once setVisibleCurveCount(n) has set the draw range, setCurve,
\* setCurveColor, hideCurve and applyUpdates leave it as it is.
DrawRangeOwnedBySetVisibleCurveCount ==
    lastOp = "setVisibleCurveCount" =>
        /\ \A i \in CurveSlots, pts \in ValidControlPoints, c \in ColorInputs :
              /\ setCurve(mc, i, pts, c).drawCount = mc.drawCount
              /\ setCurveColor(mc, i, c).drawCount = mc.drawCount
        /\ \A i \in CurveSlots : hideCurve(mc, i).drawCount = mc.drawCount
        /\ applyUpdates(mc).drawCount = mc.drawCount

(***************************************************************************)
(* Lifecycle of the two renderers: remove() and exists().                  *)
(***************************************************************************)
\* isCurveVisible(curveIndex) and getCurve(curveIndex): the value returned,
\* or "TypeError" when the call raises.
isCurveVisible(r, curveIndex) ==
    IF curveIndex < 0 \/ curveIndex >= MaxCurves THEN "false"
    ELSE IF curveIndex \notin DOMAIN r.curveData THEN "TypeError"
    ELSE IF r.curveData[curveIndex].visible THEN "true" ELSE "false"

getCurve(r, curveIndex) ==
    IF curveIndex < 0 \/ curveIndex >= MaxCurves THEN "null"
    ELSE IF curveIndex \notin DOMAIN r.curveData THEN "TypeError"
    ELSE IF ~r.curveData[curveIndex].visible
            \/ Len(r.curveData[curveIndex].controlPoints) < 2 THEN "null"
    ELSE "curve"

MutCurvesRemoveKeepsMesh(r) ==
    IF r.mesh
    THEN [r EXCEPT !.sceneRemovals = @ + 1, !.curveData = << >>]
    ELSE [r EXCEPT !.curveData = << >>]

\* MergedGPUCurves.remove(): if (this.mesh) { scene.remove(mesh); dispose;
\* this.mesh = null }; this.curveData = []
curvesRemove(r) ==
    IF r.mesh
    THEN [r EXCEPT !.sceneRemovals = @ + 1, !.mesh = FALSE, !.curveData = << >>]
    ELSE [r EXCEPT !.curveData = << >>]

\* MergedGPUCurves.exists()
curvesExists(r) == r.mesh

\* PanesShader.remove() and exists()
panesRemove(q) ==
    IF q.instancedMesh
    THEN [q EXCEPT !.sceneRemovals = @ + 1, !.instancedMesh = FALSE]
    ELSE q

panesExists(q) == q.instancedMesh

InitLifecycle ==
    /\ mc = NewMergedCurves
    /\ ps = NewPanesShader([i \in PaneSlots |-> 0])
    /\ flights = << >>
    /\ params = NoParams
    /\ pc = "idle"
    /\ lastOp = "none"

CurvesRemove ==
    /\ mc' = curvesRemove(mc)
    /\ lastOp' = IF curvesExists(mc) THEN "Curves.remove" ELSE "Curves.remove again"
    /\ UNCHANGED hostVars

PanesRemove ==
    PanesBecomes(panesRemove(ps),
                 IF panesExists(ps) THEN "Panes.remove" ELSE "Panes.remove again")

NextLifecycle ==
    \/ SetCurve
    \/ HideCurve
    \/ CurvesRemove
    \/ PanesSetCurveControlPoints
    \/ PanesRemove

SpecLifecycle == InitLifecycle /\ [][NextLifecycle]_vars

\* C28: each renderer exists from its construction until its remove() and
\* in no state after it; the first remove() detaches the mesh from the scene
\* (one scene.remove), and a second remove() changes nothing and raises
\* nothing.
RendererLifecycle ==
    /\ curvesExists(mc) /\ panesExists(ps)
    /\ [][ /\ (curvesExists(mc) /\ lastOp' \notin {"Curves.remove", "Curves.remove again"})
                => curvesExists(mc')
           /\ (panesExists(ps) /\ lastOp' \notin {"Panes.remove", "Panes.remove again"})
                => panesExists(ps')
           /\ (curvesExists(mc) /\ lastOp' = "Curves.remove")
                => (~curvesExists(mc') /\ mc'.sceneRemovals = 1 /\ ~mc'.thrown)
           /\ (panesExists(ps) /\ lastOp' = "Panes.remove")
                => (~panesExists(ps') /\ ps'.sceneRemovals = 1)
           /\ ~curvesExists(mc)
                => (~curvesExists(mc') /\ mc'.sceneRemovals = 1)
           /\ ~panesExists(ps)
                => (~panesExists(ps') /\ ps'.sceneRemovals = 1)
           /\ lastOp' = "Curves.remove again" => mc' = mc
           /\ lastOp' = "Panes.remove again" => ps' = ps
         ]_vars

\* Both renderers have been removed, the curve renderer twice.
RendererLifecycleWitness ==
    /\ lastOp = "Curves.remove again"
    /\ ~curvesExists(mc) /\ mc.sceneRemovals = 1
    /\ ~panesExists(ps) /\ ps.sceneRemovals = 1
    /\ \E i \in PaneSlots : ps.animationParams[i].visible = 1

\* C30: on a removed curve renderer, setCurve, setCurveColor, hideCurve,
\* isCurveVisible and getCurve with an index in [0, maxCurves) raise no error
\* and change no state.
RemovedCurvesAreInert ==
    (~curvesExists(mc) /\ ~mc.thrown) =>
        \A i \in CurveSlots :
            /\ \A pts \in ValidControlPoints, c \in ColorInputs :
                  /\ setCurve(mc, i, pts, c) = mc
                  /\ setCurveColor(mc, i, c) = mc
            /\ hideCurve(mc, i) = mc
            /\ isCurveVisible(mc, i) # "TypeError"
            /\ getCurve(mc, i) # "TypeError"

\* C21: after initializeFlights and any updateFlightCount(c) with
\* 1 <= c <= capacity (and whatever else the host does in between), the k-th
\* live flight is bound to slot k of both renderers, the number of flights
\* is the requested count, and the slots visible in either renderer are
\* exactly those of the live flights; the slots of removed flights are
\* hidden.
SlotBinding ==
    /\ Len(flights) = params.numFlights
    /\ Len(flights) \in 1 .. MaxFlights
    /\ \A k \in DOMAIN flights :
          flights[k].curveIndex = k - 1 /\ flights[k].paneIndex = k - 1
    /\ \A i \in FrameSlots :
          /\ mc.curveData[i].visible <=> i < Len(flights)
          /\ ps.animationParams[i].visible = (IF i < Len(flights) THEN 1 ELSE 0)
    /\ mc.currentCurveCount = Len(flights)
    /\ ps.activePanes = Len(flights)
    /\ \A c \in 1 .. MaxFlights :
          LET h == frameUpdateFlightCount(FrameHost, c, FrameConfigs)
          IN  /\ Len(h.flights) = c
              /\ \A k \in 1 .. Min(c, Len(flights)) :
                    /\ h.flights[k].curveIndex = flights[k].curveIndex
                    /\ h.flights[k].paneIndex = flights[k].paneIndex

\* The flight count was lowered from capacity: the last slot was in use and
\* now holds no flight.
SlotBindingWitness ==
    /\ lastOp = "updateFlightCount"
    /\ Len(flights) < MaxFlights
    /\ mc.curveData[MaxFlights - 1].controlPoints # << >>
    /\ ps.time > 0

\* C24: setReturnMode changes no per-instance attribute, and after every
\* host operation each live flight's returnFlight flag equals the pane
\* renderer's return-mode flag.
ReturnModeIsRendererWide ==
    /\ \A enabled \in BOOLEAN :
          [panesSetReturnMode(ps, enabled) EXCEPT !.returnModeEnabled = ps.returnModeEnabled]
             = ps
    /\ ps.returnModeEnabled = params.returnFlight
    /\ \A k \in DOMAIN flights : flights[k].returnFlight = ps.returnModeEnabled

\* Return mode was switched off and flights were created afterwards.
ReturnModeIsRendererWideWitness ==
    /\ lastOp = "updateFlightCount"
    /\ ~ps.returnModeEnabled
    /\ Len(flights) = MaxFlights
    /\ ps.time > 0

\* Slot j of the two renderers holds the same data in (r, q) as in (r0, q0).
SameSlot(r, q, r0, q0, j) ==
    /\ r.curveData[j] = r0.curveData[j]
    /\ \A v \in Vertices : InSlot(v, j) =>
          (r.positions[v] = r0.positions[v] /\ r.colors[v] = r0.colors[v])
    /\ StoredPanePoints(q, j) = StoredPanePoints(q0, j)
    /\ q.instanceColors[j] = q0.instanceColors[j]
    /\ q.instanceScales[j] = q0.instanceScales[j]
    /\ q.instanceElevations[j] = q0.instanceElevations[j]
    /\ q.instanceUvTransforms[j] = q0.instanceUvTransforms[j]
    /\ q.animationParams[j] = q0.animationParams[j]

\* C22: remove() of a live flight hides its curve slot (not visible,
\* positions zero) and its pane slot (visible flag 0), leaves every other
\* slot and the capacity of both renderers as they were, and create() of a
\* new Flight on the same index shows both slots again with the new
\* flight's control points (the pane's resampled to 4), colors, size,
\* elevation, speed and tilt mode.
RemoveHidesCreateReuses ==
    \A k \in DOMAIN flights :
        LET f == flights[k]
            i == f.curveIndex
            r1 == flightRemove(mc, f)
            q1 == flightRemovePane(ps, f)
        IN  /\ ~r1.curveData[i].visible
            /\ SlotPositionsZero(r1, i)
            /\ q1.animationParams[i].visible = 0
            /\ \A j \in FrameSlots \ {i} : SameSlot(r1, q1, mc, ps, j)
            /\ DOMAIN r1.positions = DOMAIN mc.positions
            /\ DOMAIN r1.curveData = DOMAIN mc.curveData
            /\ q1.maxPanes = ps.maxPanes
            /\ DOMAIN q1.animationParams = DOMAIN ps.animationParams
            /\ \A P \in FlightPointInputs, speed \in FrameSpeedInputs :
                  LET g == [NewFlight([controlPoints |-> P, curveColor |-> PaneColorHex], i)
                              EXCEPT !.animationSpeed = speed,
                                     !.animationSpeedTarget = speed,
                                     !.elevationOffset = ElevationOffset,
                                     !.paneColor = DefaultCurveColor,
                                     !.paneSize = BaseSize \div 2,
                                     !.tiltMode = "Tangent"]
                      r2 == flightCreate(r1, g)
                      q2 == flightCreatePane(q1, g)
                  IN  /\ r2.curveData[i].visible
                      /\ r2.curveData[i].controlPoints = P
                      /\ r2.curveData[i].color = ToColor(PaneColorHex)
                      /\ q2.animationParams[i].visible = 1
                      /\ StoredPanePoints(q2, i) = resampleTo4Points(P)
                      /\ q2.instanceColors[i] = ToColor(DefaultCurveColor)
                      /\ q2.instanceScales[i] * BaseSize = (BaseSize \div 2) * ScaleUnit
                      /\ q2.instanceElevations[i] = ElevationOffset
                      /\ q2.animationParams[i].speed = speed
                      /\ q2.animationParams[i].tiltMode = 1

\* updateFlightCount has created a flight on the last slot in the middle of
\* a session: every slot holds a live flight, shown in both renderers.
RemoveHidesCreateReusesWitness ==
    /\ lastOp = "updateFlightCount"
    /\ Len(flights) = MaxFlights
    /\ MaxFlights > 1
    /\ ps.time > 0
    /\ \A i \in FrameSlots :
          mc.curveData[i].visible /\ ps.animationParams[i].visible = 1

\* C29: after remove() no later call on the same Flight object shows its
\* curve slot or its pane slot again or writes non-zero geometry into its
\* curve slot.
RemovedFlightStaysRemoved ==
    \A k \in DOMAIN flights :
        LET f == [flights[k] EXCEPT !.cachedCurve = FALSE]
            i == f.curveIndex
            r1 == flightRemove(mc, f)
            q1 == flightRemovePane(ps, f)
            hidden(r, q) == /\ ~r.curveData[i].visible
                            /\ q.animationParams[i].visible = 0
                            /\ SlotPositionsZero(r, i)
        IN  /\ \A P \in FlightPointInputs :
                  hidden(flightSetControlPoints(r1, f, P),
                         flightSetControlPointsPane(q1, f, P))
            /\ \A c \in ColorInputs :
                  /\ hidden(flightSetCurveColor(r1, f, c), q1)
                  /\ hidden(r1, panesSetPaneColor(q1, f.paneIndex, c))
            /\ \A z \in SizeInputs : hidden(r1, panesSetPaneSize(q1, f.paneIndex, z))
            /\ \A e \in ElevationInputs :
                  hidden(r1, panesSetElevationOffset(q1, f.paneIndex, e))
            /\ \A v \in FrameSpeedInputs :
                  hidden(r1, flightSetAnimationSpeedPane(q1, f, v))
            /\ \A m \in TiltModeInputs : hidden(r1, panesSetTiltMode(q1, f.paneIndex, m))
            /\ \A d \in DeltaInputs : hidden(r1, flightUpdatePane(q1, f, d))

(***************************************************************************)
(* Speed smoothing of a flight at frame resolution.  A speed s stands for  *)
(* s / SmoothUnit and a frame time d for d / SmoothDtUnit seconds; a       *)
(* product is rounded down to the grid.  The pane renderer's clock stands  *)
(* at 0, where setAnimationSpeed keeps the phase whatever the speed.       *)
(***************************************************************************)
SmoothUnit == 100000
SmoothDtUnit == 24
SnapNear == 1
SnapClose == 10

\* deltaTime ? Math.min(1, deltaTime * 6) : 1, as a number of SmoothDtUnit-ths
smoothingFactor(deltaTime) ==
    IF deltaTime = 0 THEN SmoothDtUnit ELSE Min(6 * deltaTime, SmoothDtUnit)

MutSmoothingOvershoots(speed, target, deltaTime) ==
    LET difference == target - speed
    IN  IF Abs(difference) < SnapNear THEN target
        ELSE speed + (difference * 6 * (deltaTime + 1)) \div SmoothDtUnit

\* _applyAnimationSpeedSmoothing(deltaTime): the flight's animationSpeed
\* after the call.
applyAnimationSpeedSmoothing(speed, target, deltaTime) ==
    LET difference == target - speed
        moved == speed + (difference * smoothingFactor(deltaTime)) \div SmoothDtUnit
    IN  IF Abs(difference) < SnapNear THEN target
        ELSE IF Abs(target - moved) < SnapClose THEN target
        ELSE moved

SmoothSpeedInputs == { (3 * SmoothUnit) \div 100, SmoothUnit \div 10, SmoothUnit \div 4 }
SmoothDeltaInputs == { 0, 1, 2, 8 }

\* A created shader-based flight on slot 0 whose speed is at its target.
InitSmooth ==
    /\ \E speed \in SmoothSpeedInputs :
          LET flight == [ShaderFlight(<<PtC, PtA>>) EXCEPT
                            !.animationSpeed = speed, !.animationSpeedTarget = speed]
          IN  /\ flights = << flightCreated(flight) >>
              /\ ps = flightCreatePane(NewPanesShader([i \in PaneSlots |-> 0]), flight)
              /\ mc = flightCreate(NewMergedCurves, flight)
    /\ params = NoParams
    /\ pc = "idle"
    /\ lastOp = "Flight.create"

\* flight.setAnimationSpeed(speed), not immediate
FlightSmoothSetAnimationSpeed ==
    \E speed \in SmoothSpeedInputs :
        /\ ps' = flightSetAnimationSpeedPane(ps, flights[1], speed)
        /\ flights' = [flights EXCEPT ![1] = flightSetAnimationSpeed(@, speed)]
        /\ lastOp' = "Flight.setAnimationSpeed"
        /\ UNCHANGED <<mc, params, pc>>

\* flight.update(deltaTime) of the shader-based flight: the smoothing hands
\* a changed speed to the pane renderer, then update returns.
FlightSmoothUpdate ==
    \E deltaTime \in SmoothDeltaInputs :
        LET f == flights[1]
            speed == applyAnimationSpeedSmoothing(
                        f.animationSpeed, f.animationSpeedTarget, deltaTime)
        IN  /\ flights' = [flights EXCEPT ![1].animationSpeed = speed]
            /\ ps' = IF f.animationSpeed # f.animationSpeedTarget
                     THEN panesSetAnimationSpeed(ps, f.paneIndex, speed)
                     ELSE ps
            /\ lastOp' = "Flight.update"
            /\ UNCHANGED <<mc, params, pc>>

NextSmooth == FlightSmoothSetAnimationSpeed \/ FlightSmoothUpdate

SpecSmooth == InitSmooth /\ [][NextSmooth]_vars

\* The frame loop calls update again and again.
SpecSmoothFair == SpecSmooth /\ WF_vars(FlightSmoothUpdate)

PaneSpeedMovesTowardTarget ==
    [][ (/\ ps.animationParams[0].speed = flights[1].animationSpeedTarget
         /\ flights'[1].animationSpeedTarget = flights[1].animationSpeedTarget)
        => ps'.animationParams[0].speed = flights[1].animationSpeedTarget ]_vars

====
